---- MODULE Spec2Model ----
(***************************************************************************)
(* Behaviour model of the GOLAGULI agent controller: the finite state      *)
(* machine of game/agents/fsm.py, the agents that drive it                 *)
(* (BaseAgent, NetworkedAgent), the economy and the A* navigator.          *)
(*                                                                         *)
(* Numbers that are floats in the program are kept exact: health, scrap,   *)
(* ammo are integers in every run modelled here; terrain costs and A*      *)
(* priorities are scaled by CostScale, minimax scores by ScoreScale.       *)
(***************************************************************************)
EXTENDS Integers, Sequences, FiniteSets, TLC

VARIABLES
    mode,       \* kind of world_state handed to update: "mock", "local", "net"
    agents,     \* id -> agent object (BaseAgent / NetworkedAgent / ProxyAgent)
    resources,  \* world.resources, a list of ResourceEntity
    ticks,      \* number of calls (update, set_state) made so far
    last,       \* record of the last call made on the program
    query       \* a call of a pure function: its arguments and its result

vars == <<mode, agents, resources, ticks, last, query>>

(***************************************************************************)
(* World: grid, terrain costs, neighbours                                  *)
(***************************************************************************)

\* World.grid, rows indexed by y, columns by x (both 0-based in the program)
Grid == << <<"floor", "floor", "floor">>,
           <<"floor", "wall",  "floor">> >>

Width  == Len(Grid[1])
Height == Len(Grid)

Cells == {<<x, y>> : x \in 0..(Width - 1), y \in 0..(Height - 1)}

CostScale == 10

\* TERRAIN_COSTS, times CostScale
TERRAIN_COSTS ==
    [floor |-> 10, water |-> 50, wall |-> 990, mud |-> 30, grass |-> 12, rock |-> 20]

Terrain(x, y) == Grid[y + 1][x + 1]

Abs(n) == IF n < 0 THEN -n ELSE n
Max2(a, b) == IF a >= b THEN a ELSE b
Min2(a, b) == IF a <= b THEN a ELSE b

InBounds(x, y) == 0 <= x /\ x < Width /\ 0 <= y /\ y < Height

\* World.get_cost / ProxyWorld.get_cost
get_cost(w, x, y) == TERRAIN_COSTS[w.grid[y + 1][x + 1]]

\* The four neighbour offsets, in the order both worlds try them
Offsets == << <<-1, 0>>, <<1, 0>>, <<0, -1>>, <<0, 1>> >>

\* A world as the agent sees it: kind is "World" (engine) or "Proxy" (client);
\* grid is its grid of terrains; occ is the set of cells occupied by living
\* agents (used by ProxyWorld only).
\* World.is_walkable / ProxyWorld.is_walkable
is_walkable(w, x, y) ==
    /\ InBounds(x, y)
    /\ w.grid[y + 1][x + 1] # "wall"
    /\ (w.kind = "Proxy" => <<x, y>> \notin w.occ)

\* World.get_neighbors keeps the in-bounds cells; ProxyWorld.get_neighbors keeps
\* the walkable ones.
get_neighbors(w, x, y) ==
    LET cand == [i \in 1..4 |-> <<x + Offsets[i][1], y + Offsets[i][2]>>]
        keep(c) == IF w.kind = "Proxy" THEN is_walkable(w, c[1], c[2])
                   ELSE InBounds(c[1], c[2])
    IN  SelectSeq(cand, keep)

manhattan(a, b) == Abs(a[1] - b[1]) + Abs(a[2] - b[2])

chebyshev(ax, ay, bx, by) == Max2(Abs(ax - bx), Abs(ay - by))

(***************************************************************************)
(* heapq on _Node(priority, position): nodes compare by priority only      *)
(***************************************************************************)

\* heapq._siftdown(heap, startpos, pos), positions 0-based
RECURSIVE SiftDownFrom(_, _, _, _)
SiftDownFrom(heap, startpos, pos, newitem) ==
    IF pos > startpos
    THEN LET parentpos == (pos - 1) \div 2
             parent == heap[parentpos + 1]
         IN  IF newitem.priority < parent.priority
             THEN SiftDownFrom([heap EXCEPT ![pos + 1] = parent],
                               startpos, parentpos, newitem)
             ELSE [heap EXCEPT ![pos + 1] = newitem]
    ELSE [heap EXCEPT ![pos + 1] = newitem]

siftdown(heap, startpos, pos) == SiftDownFrom(heap, startpos, pos, heap[pos + 1])

\* heapq._siftup(heap, pos): bubble the smaller child up until a leaf, then
\* sift the item down from there
RECURSIVE SiftUpFrom(_, _, _, _)
SiftUpFrom(heap, startpos, pos, newitem) ==
    LET endpos == Len(heap)
        childpos == 2 * pos + 1
    IN  IF childpos < endpos
        THEN LET rightpos == childpos + 1
                 c == IF rightpos < endpos
                         /\ ~(heap[childpos + 1].priority < heap[rightpos + 1].priority)
                      THEN rightpos ELSE childpos
             IN  SiftUpFrom([heap EXCEPT ![pos + 1] = heap[c + 1]], startpos, c, newitem)
        ELSE siftdown([heap EXCEPT ![pos + 1] = newitem], startpos, pos)

siftup(heap, pos) == SiftUpFrom(heap, pos, pos, heap[pos + 1])

heappush(heap, item) ==
    LET h == Append(heap, item) IN siftdown(h, 0, Len(h) - 1)

\* Faulty variant of heappop: the node pushed last is taken, not the smallest.
heappop_Last(heap) ==
    [item |-> heap[Len(heap)], heap |-> SubSeq(heap, 1, Len(heap) - 1)]

\* heappop returns the smallest node and the remaining heap
heappop(heap) ==
    LET lastelt == heap[Len(heap)]
        rest == SubSeq(heap, 1, Len(heap) - 1)
    IN  IF rest # <<>>
        THEN [item |-> rest[1], heap |-> siftup([rest EXCEPT ![1] = lastelt], 0)]
        ELSE [item |-> lastelt, heap |-> rest]

(***************************************************************************)
(* AStar                                                                   *)
(***************************************************************************)

Inf == 1000000
NoCell == <<-1, -1>>

\* AStar._reconstruct_path: follow came_from back to the start, then reverse
RECURSIVE reconstruct_path(_, _)
reconstruct_path(came_from, current) ==
    IF came_from[current] # NoCell
    THEN Append(reconstruct_path(came_from, came_from[current]), current)
    ELSE <<current>>

\* the for-loop of find_path over the neighbours of current
RECURSIVE RelaxNeighbors(_, _, _, _, _, _)
RelaxNeighbors(st, current, nbs, i, goal, w) ==
    IF i > Len(nbs) THEN st
    ELSE LET neighbor == nbs[i]
             tentative_g == st.g_score[current] + get_cost(w, neighbor[1], neighbor[2])
         IN  IF tentative_g < st.g_score[neighbor]
             THEN LET f_score == tentative_g + CostScale * manhattan(neighbor, goal)
                      st2 == [open_set  |-> heappush(st.open_set,
                                               [priority |-> f_score, position |-> neighbor]),
                              came_from |-> [st.came_from EXCEPT ![neighbor] = current],
                              g_score   |-> [st.g_score EXCEPT ![neighbor] = tentative_g]]
                  IN  RelaxNeighbors(st2, current, nbs, i + 1, goal, w)
             ELSE RelaxNeighbors(st, current, nbs, i + 1, goal, w)

\* the while-loop of find_path
RECURSIVE AStarLoop(_, _, _)
AStarLoop(st, goal, w) ==
    IF st.open_set = <<>> THEN <<>>
    ELSE LET popped == heappop(st.open_set)
             current == popped.item.position
         IN  IF current = goal
             THEN reconstruct_path(st.came_from, current)
             ELSE AStarLoop(RelaxNeighbors([st EXCEPT !.open_set = popped.heap], current,
                                           get_neighbors(w, current[1], current[2]),
                                           1, goal, w),
                            goal, w)

\* Faulty variant of find_path: a failed search answers with the straight
\* line from start to goal.
find_path_DirectFallback(start, goal, w) ==
    IF start = goal THEN <<start>>
    ELSE LET found == AStarLoop([open_set  |-> <<[priority |-> 0, position |-> start]>>,
                                 came_from |-> [c \in Cells |-> NoCell],
                                 g_score   |-> [c \in Cells |-> IF c = start THEN 0 ELSE Inf]],
                                goal, w)
         IN  IF found = <<>> THEN <<start, goal>> ELSE found

\* AStar.find_path(start, goal, nav_map)
find_path(start, goal, w) ==
    IF start = goal THEN <<start>>
    ELSE AStarLoop([open_set  |-> <<[priority |-> 0, position |-> start]>>,
                    came_from |-> [c \in Cells |-> NoCell],
                    g_score   |-> [c \in Cells |-> IF c = start THEN 0 ELSE Inf]],
                   goal, w)

(***************************************************************************)
(* Agents and world state                                                  *)
(***************************************************************************)

NAgents == 2
Ids == 1..NAgents

StateNames == {"FIGHT", "FLEE", "SCAVENGE", "EAT", "UPGRADE"}

\* values standing for Python's None / a missing attribute
None == "None"
NoPos == <<-1, -1>>
NoId == 0
NoGoal == <<-1, -1, "None">>
NoMaxHealth == -1
NoUpgrade == [name |-> "None", type |-> "None", cost |-> 0, value |-> 0, level |-> 0]

\* EconomySystem.available_upgrades, in list order per type
available_upgrades ==
    [weapon_damage |-> << [name |-> "Sharpened Blade", type |-> "weapon_damage",
                           cost |-> 10, value |-> 5, level |-> 1],
                          [name |-> "Titanium Edge", type |-> "weapon_damage",
                           cost |-> 25, value |-> 10, level |-> 2] >>,
     max_health    |-> << [name |-> "Leather Armor", type |-> "max_health",
                           cost |-> 15, value |-> 20, level |-> 1],
                          [name |-> "Kevlar Vest", type |-> "max_health",
                           cost |-> 30, value |-> 50, level |-> 2] >>]

\* inventory: a dict of counts; owned holds the names n of the keys "upgrade_n"
EmptyInventory == [food |-> 0, scrap |-> 0, ammo |-> 0, owned |-> {}]

\* Faulty variant of NewAgent: __post_init__ forgets fsm.set_state("SCAVENGE"),
\* leaving current_state None.
NewAgent_NoInitialState(id, x, y, health, ammo, inventory) ==
    [id |-> id, x |-> x, y |-> y,
     present |-> TRUE,
     health |-> health, max_health |-> 100, ammo |-> ammo,
     inventory |-> inventory,
     upgrades |-> [weapon_damage |-> 0],
     path |-> <<>>, path_index |-> 0,
     state |-> None,
     scavenge_ticks |-> 0, scavenge_goal |-> NoGoal,
     stuck_ticks |-> 0,
     flee_ticks |-> 0,
     fight_repath_ticks |-> 0, fight_target_pos |-> NoPos,
     pending_attack_target_id |-> NoId,
     pending_upgrade_type |-> None]

\* BaseAgent(id, x, y, health, ammo, inventory) after __post_init__, and
\* NetworkedAgent.__init__ on top of it (pending_action, requested_move and
\* _stuck_ticks; attributes an agent lacks read as their getattr default)
NewAgent(id, x, y, health, ammo, inventory) ==
    [id |-> id, x |-> x, y |-> y,
     present |-> TRUE,   \* member of world_state.agents
     health |-> health, max_health |-> 100, ammo |-> ammo,
     inventory |-> inventory,
     upgrades |-> [weapon_damage |-> 0],
     path |-> <<>>, path_index |-> 0,
     state |-> "SCAVENGE",
     scavenge_ticks |-> 0, scavenge_goal |-> NoGoal,
     stuck_ticks |-> 0,
     flee_ticks |-> 0,
     fight_repath_ticks |-> 0, fight_target_pos |-> NoPos,
     pending_attack_target_id |-> NoId,
     pending_upgrade_type |-> None]

\* what a world_state exposes: the engine's Game has world, agents and economy;
\* the client's ProxyGameState has world and agents; the tests' MockWorld nothing
HasWorld(ws)   == ws.mode \in {"local", "net"}
HasAgents(ws)  == ws.mode \in {"local", "net"}
HasEconomy(ws) == ws.mode = "local"

\* getattr(world_state, "agents", []): ids in list order
AgentList(ws) ==
    IF HasAgents(ws)
    THEN SelectSeq([k \in 1..NAgents |-> k], LAMBDA k : ws.agents[k].present)
    ELSE <<>>

\* world_state.world as a navigation map; ProxyWorld.agents is the list
\* world_state.agents
WorldOf(ws) ==
    IF ws.mode = "net"
    THEN [kind |-> "Proxy", grid |-> Grid,
          occ  |-> {<<ws.agents[k].x, ws.agents[k].y>> :
                       k \in {j \in Ids : ws.agents[j].present /\ ws.agents[j].health > 0}}]
    ELSE [kind |-> "World", grid |-> Grid, occ |-> {}]

\* an outcome of a state's execute: the world state after it and the state
\* name it returned (None for no transition)
Out(ws, i, a, nxt) ==
    [agents |-> [ws.agents EXCEPT ![i] = a], resources |-> ws.resources, nxt |-> nxt]

(***************************************************************************)
(* Economy                                                                 *)
(***************************************************************************)

\* Faulty variant of collect_resource: collected ammo is loaded into the
\* weapon as well.
collect_resource_Load(a, resource, amount) ==
    [a EXCEPT !.inventory[resource] = @ + amount,
              !.ammo = IF resource = "ammo" THEN @ + amount ELSE @]

\* EconomySystem.collect_resource
collect_resource(a, resource, amount) ==
    [a EXCEPT !.inventory[resource] = @ + amount]

\* Faulty variant of consume_food: the amount held is not checked.
consume_food_Unchecked(a, amount) ==
    <<TRUE, [a EXCEPT !.inventory.food = @ - amount,
                      !.health = Min2(100, a.health + amount * 10)]>>

\* EconomySystem.consume_item(agent, FOOD, amount): <<success, agent>>
consume_food(a, amount) ==
    IF a.inventory.food >= amount
    THEN <<TRUE, [a EXCEPT !.inventory.food = @ - amount,
                           !.health = Min2(100, a.health + amount * 10)]>>
    ELSE <<FALSE, a>>

\* EconomySystem.get_affordable_upgrade: the first upgrade of the type that is
\* not owned and that the scrap pays for, or NoUpgrade (None)
RECURSIVE FirstAffordable(_, _, _)
FirstAffordable(a, upgrades, k) ==
    IF k > Len(upgrades) THEN NoUpgrade
    ELSE IF upgrades[k].name \in a.inventory.owned THEN FirstAffordable(a, upgrades, k + 1)
    ELSE IF a.inventory.scrap >= upgrades[k].cost THEN upgrades[k]
    ELSE FirstAffordable(a, upgrades, k + 1)

get_affordable_upgrade(a, upgrade_type) ==
    FirstAffordable(a, available_upgrades[upgrade_type], 1)

\* EconomySystem.purchase_upgrade: <<success, agent>>
purchase_upgrade(a, upgrade) ==
    IF a.inventory.scrap >= upgrade.cost
    THEN <<TRUE, [a EXCEPT !.inventory.scrap = @ - upgrade.cost,
                           !.inventory.owned = @ \cup {upgrade.name},
                           !.health = IF upgrade.type = "max_health"
                                      THEN @ + upgrade.value ELSE @]>>
    ELSE <<FALSE, a>>

(***************************************************************************)
(* Navigation of an agent                                                  *)
(***************************************************************************)

\* the navigator's answer for (start, goal) on the map w
NavPath(start, goal, w) == find_path(start, goal, w)

\* Faulty variant of set_path: the cursor is not reset.
set_path_KeepCursor(a, path) == [a EXCEPT !.path = path]

\* BaseAgent.set_path
set_path(a, path) == [a EXCEPT !.path = path, !.path_index = 0]

\* BaseAgent.plan_path
plan_path(a, target, w) == set_path(a, NavPath(<<a.x, a.y>>, target, w))

\* "agent.path and len(agent.path) >= 2" after planning to target
Plannable(a, target, w) == Len(NavPath(<<a.x, a.y>>, target, w)) >= 2

\* [n for n in world.get_neighbors(x, y) if world.is_walkable(*n)], as a set
WalkableNeighbors(a, w) ==
    LET nbs == get_neighbors(w, a.x, a.y)
    IN  {nbs[k] : k \in {j \in 1..Len(nbs) : is_walkable(w, nbs[j][1], nbs[j][2])}}

\* "for _ in range(8): plan to a random cell, stop at the first path of two or
\* more cells", then the neighbour fallback.  A random cell may be any cell;
\* the agent's own cell never gives two cells, so all eight draws can fail, and
\* then the path is whatever the last failed plan left.
Wander(a, w) ==
    LET good == {c \in Cells : Plannable(a, c, w)}
        bad  == Cells \ good
        nbs  == WalkableNeighbors(a, w)
    IN  {plan_path(a, c, w) : c \in good}
        \cup (IF nbs # {} THEN {set_path(a, <<n>>) : n \in nbs}
              ELSE {plan_path(a, c, w) : c \in bad})

(***************************************************************************)
(* ScavengeState                                                           *)
(***************************************************************************)

\* the living rivals of agent a, as ids in list order
Rivals(ws, a) ==
    SelectSeq(AgentList(ws), LAMBDA k : ws.agents[k].id # a.id /\ ws.agents[k].health > 0)

\* Faulty variant of ScavengeTransition: the scrap check comes before the
\* health check.
ScavengeTransition_UpgradeFirst(ws, a) ==
    LET rv == Rivals(ws, a)
    IN  IF a.inventory.scrap >= 15 THEN "UPGRADE"
        ELSE IF a.health < 30 /\ a.inventory.food > 0 THEN "EAT"
        ELSE IF \E k \in 1..Len(rv) :
                   /\ chebyshev(a.x, a.y, ws.agents[rv[k]].x, ws.agents[rv[k]].y) <= 7
                   /\ a.health > 40
                   /\ a.ammo > 0
             THEN "FIGHT"
        ELSE None

\* Faulty variant of ScavengeTransition: the rival check comes before the
\* scrap check.
ScavengeTransition_FightFirst(ws, a) ==
    LET rv == Rivals(ws, a)
    IN  IF a.health < 30 /\ a.inventory.food > 0 THEN "EAT"
        ELSE IF \E k \in 1..Len(rv) :
                   /\ chebyshev(a.x, a.y, ws.agents[rv[k]].x, ws.agents[rv[k]].y) <= 7
                   /\ a.health > 40
                   /\ a.ammo > 0
             THEN "FIGHT"
        ELSE IF a.inventory.scrap >= 15 THEN "UPGRADE"
        ELSE None

\* the transition checks that open ScavengeState.execute
ScavengeTransition(ws, a) ==
    LET low_health == a.health < 30
        has_food == a.inventory.food > 0
        rv == Rivals(ws, a)
    IN  IF low_health /\ has_food THEN "EAT"
        ELSE IF a.inventory.scrap >= 15 THEN "UPGRADE"
        ELSE IF \E k \in 1..Len(rv) :
                   /\ chebyshev(a.x, a.y, ws.agents[rv[k]].x, ws.agents[rv[k]].y) <= 7
                   /\ a.health > 40
                   /\ a.ammo > 0
             THEN "FIGHT"
        ELSE None

\* score of a resource: desire * 10.0 - dist
ResourceScore(a, res) ==
    LET low_health == a.health < 30
        has_food == a.inventory.food > 0
        dist == Abs(a.x - res.x) + Abs(a.y - res.y)
        food == IF res.type = "food"
                THEN (IF low_health /\ ~has_food THEN 120 ELSE 0)
                     + (IF a.health < 50 THEN 60 ELSE IF a.health < 80 THEN 30 ELSE 5)
                ELSE 0
        ammo == IF res.type = "ammo"
                THEN (IF a.ammo < 3 THEN 60 ELSE IF a.ammo < 15 THEN 20 ELSE 5)
                ELSE 0
        scrap == IF res.type = "scrap" THEN 10 ELSE 0
    IN  food + ammo + scrap - dist

\* indices of the resources that are not under the agent, in list order
AwayResources(a, rs) ==
    SelectSeq([k \in 1..Len(rs) |-> k], LAMBDA k : ~(rs[k].x = a.x /\ rs[k].y = a.y))

\* first index of idx with the highest score ("if score > best_score")
RECURSIVE FirstBest(_, _, _, _, _)
FirstBest(a, rs, idx, k, best) ==
    IF k > Len(idx) THEN best
    ELSE IF best = 0 \/ ResourceScore(a, rs[idx[k]]) > ResourceScore(a, rs[best])
         THEN FirstBest(a, rs, idx, k + 1, idx[k])
         ELSE FirstBest(a, rs, idx, k + 1, best)

\* scored_resources.sort(key=score, reverse=True): a stable insertion of
\* idx[k] into the sorted prefix
RECURSIVE SortByScore(_, _, _, _)
SortByScore(a, rs, idx, k) ==
    IF k = 0 THEN <<>>
    ELSE LET pre == SortByScore(a, rs, idx, k - 1)
             sc == ResourceScore(a, rs[idx[k]])
             n == Cardinality({j \in 1..Len(pre) : ResourceScore(a, rs[pre[j]]) >= sc})
         IN  SubSeq(pre, 1, n) \o <<idx[k]>> \o SubSeq(pre, n + 1, Len(pre))

\* the retry loop: the first resource of the sorted list with a usable path;
\* 0 when none has one
RECURSIVE FirstPlannable(_, _, _, _, _)
FirstPlannable(a, rs, sorted, k, w) ==
    IF k > Len(sorted) THEN 0
    ELSE IF Plannable(a, <<rs[sorted[k]].x, rs[sorted[k]].y>>, w) THEN sorted[k]
    ELSE FirstPlannable(a, rs, sorted, k + 1, w)

WithGoal(a, res, w) ==
    [plan_path(a, <<res.x, res.y>>, w) EXCEPT !.scavenge_goal = <<res.x, res.y, res.type>>]

\* planning towards a resource when the world has resources
ResourcePlan(ws, a) ==
    LET w == WorldOf(ws)
        rs == ws.resources
        idx == AwayResources(a, rs)
        nearest == FirstBest(a, rs, idx, 1, 0)
    IN  IF nearest = 0 THEN Wander(a, w)
        ELSE IF Plannable(a, <<rs[nearest].x, rs[nearest].y>>, w)
             THEN {WithGoal(a, rs[nearest], w)}
        ELSE LET found == FirstPlannable(a, rs, SortByScore(a, rs, idx, Len(idx)), 1, w)
             IN  IF found # 0 THEN {WithGoal(a, rs[found], w)} ELSE Wander(a, w)

\* the planning block of ScavengeState.execute: the agents it may leave, with
\* ret = TRUE when execute returns from inside the block (the stuck branch)
ScavengePlan(ws, a) ==
    LET is_path_finished == a.path = <<>> \/ a.path_index >= Len(a.path)
        is_stuck == a.stuck_ticks > 2
        w == WorldOf(ws)
    IN  IF ~(is_path_finished \/ is_stuck \/ a.scavenge_ticks % 4 = 0)
        THEN {[a |-> a, ret |-> FALSE]}
        ELSE IF is_stuck /\ HasWorld(ws)
        THEN LET nbs == WalkableNeighbors(a, w)
             IN  IF nbs # {} THEN {[a |-> plan_path(a, n, w), ret |-> TRUE] : n \in nbs}
                 ELSE {[a |-> a, ret |-> TRUE]}
        ELSE IF HasWorld(ws) /\ ws.resources # <<>>
        THEN {[a |-> b, ret |-> FALSE] : b \in ResourcePlan(ws, a)}
        ELSE IF HasWorld(ws)
        THEN {[a |-> b, ret |-> FALSE] : b \in Wander(a, w)}
        ELSE {[a |-> a, ret |-> FALSE]}

\* index of the first resource under the agent, 0 if none
ResourceUnder(a, rs) ==
    LET here == {k \in 1..Len(rs) : rs[k].x = a.x /\ rs[k].y = a.y}
    IN  IF here = {} THEN 0 ELSE CHOOSE k \in here : \A j \in here : k <= j

RemoveAt(seq, k) == SubSeq(seq, 1, k - 1) \o SubSeq(seq, k + 1, Len(seq))

\* the resource collection check that ends ScavengeState.execute
ScavengeCollect(ws, i, a) ==
    LET k == IF HasWorld(ws) THEN ResourceUnder(a, ws.resources) ELSE 0
    IN  IF k = 0 THEN Out(ws, i, a, None)
        ELSE LET res == ws.resources[k]
                 got == IF HasEconomy(ws) THEN collect_resource(a, res.type, res.amount) ELSE a
                 cleared == [got EXCEPT !.path = <<>>, !.path_index = 0,
                                        !.scavenge_goal = NoGoal]
             IN  [agents |-> [ws.agents EXCEPT ![i] = cleared],
                  resources |-> IF HasEconomy(ws) THEN RemoveAt(ws.resources, k)
                                ELSE ws.resources,
                  nxt |-> None]

\* ScavengeState.execute
ScavengeExecute(ws, i) ==
    LET a == ws.agents[i]
        t == ScavengeTransition(ws, a)
    IN  IF t # None THEN {Out(ws, i, a, t)}
        ELSE LET a1 == [a EXCEPT !.scavenge_ticks = @ + 1]
             IN  {IF p.ret THEN Out(ws, i, p.a, None) ELSE ScavengeCollect(ws, i, p.a) :
                     p \in ScavengePlan(ws, a1)}

\* ScavengeState.exit
ScavengeExit(a) == [a EXCEPT !.scavenge_ticks = 0, !.scavenge_goal = NoGoal]

\* ScavengeState.enter
ScavengeEnter(a) == a

(***************************************************************************)
(* EatState, UpgradeState                                                  *)
(***************************************************************************)

\* EatState.execute
EatExecute(ws, i) ==
    LET a == ws.agents[i]
        target_health == 60
        eaten == consume_food(a, 1)
        b == IF HasEconomy(ws) THEN eaten[2] ELSE a
        no_food == IF HasEconomy(ws) THEN ~eaten[1] ELSE a.inventory.food <= 0
    IN  IF no_food THEN {Out(ws, i, b, "SCAVENGE")}
        ELSE IF b.health < target_health /\ b.inventory.food > 0
        THEN {Out(ws, i, b, None)}
        ELSE {Out(ws, i, b, "SCAVENGE")}

EatEnter(a) == a
EatExit(a) == a

\* Faulty variant of BuyFirst: the loop does not break after a purchase.
RECURSIVE BuyFirst_NoBreak(_, _, _)
BuyFirst_NoBreak(a, types, k) ==
    IF k > Len(types) THEN a
    ELSE LET upgrade == get_affordable_upgrade(a, types[k])
         IN  IF upgrade # NoUpgrade /\ purchase_upgrade(a, upgrade)[1]
             THEN BuyFirst_NoBreak(purchase_upgrade(a, upgrade)[2], types, k + 1)
             ELSE BuyFirst_NoBreak(a, types, k + 1)

\* the purchase loop of UpgradeState.execute over [MAX_HEALTH, WEAPON_DMG]:
\* buys the first affordable upgrade and stops
RECURSIVE BuyFirst(_, _, _)
BuyFirst(a, types, k) ==
    IF k > Len(types) THEN a
    ELSE LET upgrade == get_affordable_upgrade(a, types[k])
         IN  IF upgrade # NoUpgrade /\ purchase_upgrade(a, upgrade)[1]
             THEN purchase_upgrade(a, upgrade)[2]
             ELSE BuyFirst(a, types, k + 1)

\* UpgradeState.execute
UpgradeExecute(ws, i) ==
    LET a == ws.agents[i]
    IN  IF HasEconomy(ws)
        THEN {Out(ws, i, BuyFirst(a, <<"max_health", "weapon_damage">>, 1), "SCAVENGE")}
        ELSE {Out(ws, i, [a EXCEPT !.pending_upgrade_type =
                                      IF a.health < a.max_health THEN "MAX_HEALTH"
                                      ELSE "WEAPON_DMG"],
                  "SCAVENGE")}

UpgradeEnter(a) == a
UpgradeExit(a) == a

(***************************************************************************)
(* FuzzyLogic                                                              *)
(*                                                                         *)
(* Membership degrees, rule strengths and the confidence are the program's *)
(* floats times FuzzyScale, rounded down.  float('inf') and -float('inf')  *)
(* are FuzzyInf and -FuzzyInf: they are beyond every set, and comparisons  *)
(* are all the program does with them.                                     *)
(***************************************************************************)

FuzzyScale == 1000
FuzzyInf == 1000000

\* TriangularSet.membership
membership(fset, x) ==
    IF x <= fset.low \/ x >= fset.high THEN 0
    ELSE IF x = fset.peak THEN FuzzyScale
    ELSE IF x < fset.peak
    THEN IF fset.peak = fset.low THEN FuzzyScale
         ELSE ((x - fset.low) * FuzzyScale) \div (fset.peak - fset.low)
    ELSE IF fset.high = fset.peak THEN FuzzyScale
         ELSE ((fset.high - x) * FuzzyScale) \div (fset.high - fset.peak)

TriangularSet(low, peak, high) == [low |-> low, peak |-> peak, high |-> high]

\* FuzzyLogic.__init__: the sets of the two input variables
HealthSets == [LOW |-> TriangularSet(-1, 0, 50), MEDIUM |-> TriangularSet(25, 50, 75),
               HIGH |-> TriangularSet(50, 100, 101)]

AmmoSets == [LOW |-> TriangularSet(-1, 0, 5), MEDIUM |-> TriangularSet(2, 5, 10),
             HIGH |-> TriangularSet(5, 20, 21)]

\* FuzzyVariable.fuzzify
fuzzify(sets, value) == [name \in DOMAIN sets |-> membership(sets[name], value)]

\* the strengths of the three rules of evaluate_confidence
rule_strengths(health_val, ammo_val) ==
    LET h == fuzzify(HealthSets, health_val)
        a == fuzzify(AmmoSets, ammo_val)
    IN  <<Min2(h.HIGH, a.HIGH), Min2(h.MEDIUM, a.MEDIUM), Max2(h.LOW, a.LOW)>>

\* Faulty variant of evaluate_confidence: when no rule fires the answer is
\* the neutral confidence 0.5.
evaluate_confidence_NeutralDefault(health_val, ammo_val) ==
    LET r == rule_strengths(health_val, ammo_val)
        numerator == r[1] * 9 + r[2] * 5 + r[3] * 2
        denominator == r[1] + r[2] + r[3]
    IN  IF denominator = 0 THEN FuzzyScale \div 2
        ELSE (numerator * FuzzyScale) \div (denominator * 10)

\* FuzzyLogic.evaluate_confidence, times FuzzyScale
evaluate_confidence(health_val, ammo_val) ==
    LET r == rule_strengths(health_val, ammo_val)
        numerator == r[1] * 9 + r[2] * 5 + r[3] * 2
        denominator == r[1] + r[2] + r[3]
    IN  IF denominator = 0 THEN 0
        ELSE (numerator * FuzzyScale) \div (denominator * 10)

(***************************************************************************)
(* Minimax (combat search)                                                 *)
(*                                                                         *)
(* Scores are the program's floats times ScoreScale; aggression is given   *)
(* in tenths.  distance = sqrt(dx^2 + dy^2) is kept to two decimals, which *)
(* orders the scores as the floats do for the positions reached here (two  *)
(* scores that differ only by distance differ by the distance of distinct  *)
(* small integers' roots; a health or ammo difference outweighs any change *)
(* of distance within the search depth).                                   *)
(***************************************************************************)

ScoreScale == 1000
PosInf == 1000000000
NegInf == -PosInf

\* floor(sqrt(n)) by bisection on lo..hi
RECURSIVE ISqrt(_, _, _)
ISqrt(n, lo, hi) ==
    IF lo >= hi THEN lo
    ELSE LET mid == (lo + hi + 1) \div 2
         IN  IF mid * mid <= n THEN ISqrt(n, mid, hi) ELSE ISqrt(n, lo, mid - 1)

\* CombatState.__post_init__: distance, times 100
Distance100(st) ==
    LET d2 == (st.agent.x - st.opponent.x) * (st.agent.x - st.opponent.x)
              + (st.agent.y - st.opponent.y) * (st.agent.y - st.opponent.y)
    IN  ISqrt(10000 * d2, 0, 100 * (d2 + 1))

\* Minimax.evaluate, times ScoreScale
evaluate(st, aggression) ==
    LET health_diff == st.agent.health - st.opponent.health
        ammo_diff == st.agent.ammo - st.opponent.ammo
        dist_score == IF aggression > 5 THEN -Distance100(st) ELSE Distance100(st)
    IN  health_diff * (10 + aggression) * 100 + ammo_diff * 500 + dist_score * 2

Directions == << <<"MOVE_UP", 0, -1>>, <<"MOVE_DOWN", 0, 1>>,
                 <<"MOVE_LEFT", -1, 0>>, <<"MOVE_RIGHT", 1, 0>> >>

\* Faulty variant of _get_possible_moves: the attack is generated whatever
\* the actor's ammo is.
get_possible_moves_AlwaysAttack(st, is_maximizing) ==
    LET actor == IF is_maximizing THEN st.agent ELSE st.opponent
        other == IF is_maximizing THEN st.opponent ELSE st.agent
        mk(na, no) == IF is_maximizing THEN [agent |-> na, opponent |-> no]
                      ELSE [agent |-> no, opponent |-> na]
        moves == [k \in 1..4 |->
                    [name |-> Directions[k][1],
                     state |-> mk([actor EXCEPT !.x = @ + Directions[k][2],
                                                !.y = @ + Directions[k][3]], other)]]
    IN  Append(moves, [name |-> "ATTACK",
                       state |-> mk([actor EXCEPT !.ammo = @ - 1],
                                    [other EXCEPT !.health = @ - 10])])

\* Minimax._get_possible_moves: (name, next state) in generation order
get_possible_moves(st, is_maximizing) ==
    LET actor == IF is_maximizing THEN st.agent ELSE st.opponent
        other == IF is_maximizing THEN st.opponent ELSE st.agent
        mk(na, no) == IF is_maximizing THEN [agent |-> na, opponent |-> no]
                      ELSE [agent |-> no, opponent |-> na]
        moves == [k \in 1..4 |->
                    [name |-> Directions[k][1],
                     state |-> mk([actor EXCEPT !.x = @ + Directions[k][2],
                                                !.y = @ + Directions[k][3]], other)]]
    IN  IF actor.ammo > 0
        THEN Append(moves, [name |-> "ATTACK",
                            state |-> mk([actor EXCEPT !.ammo = @ - 1],
                                         [other EXCEPT !.health = @ - 10])])
        ELSE moves

\* Faulty variant of state_after_moves: the attack is written to the actor
\* and the other of the state passed in, not to copies of them.
state_after_moves_Aliased(st, is_maximizing) ==
    LET actor == IF is_maximizing THEN st.agent ELSE st.opponent
        other == IF is_maximizing THEN st.opponent ELSE st.agent
        na == [actor EXCEPT !.ammo = @ - 1]
        no == [other EXCEPT !.health = @ - 10]
    IN  IF actor.ammo > 0
        THEN (IF is_maximizing THEN [agent |-> na, opponent |-> no]
              ELSE [agent |-> no, opponent |-> na])
        ELSE st

\* the CombatState passed to _get_possible_moves, after the call: every write
\* goes to a deepcopy of its actor or other, so it is as it was
state_after_moves(st, is_maximizing) == st

\* Minimax._minimax with its two loops; the result carries the number of
\* _minimax calls made (profiling_data["calls"]) and the states whose moves
\* _get_possible_moves generated, each with the depth left at it
RECURSIVE minimax(_, _, _, _, _, _)
RECURSIVE MaxLoop(_, _, _, _, _, _, _, _, _)
RECURSIVE MinLoop(_, _, _, _, _, _, _, _, _)

MaxLoop(moves, k, depth, alpha, beta, max_eval, calls, expanded, aggression) ==
    IF k > Len(moves) THEN [score |-> max_eval, calls |-> calls, expanded |-> expanded]
    ELSE LET r == minimax(moves[k].state, depth - 1, alpha, beta, FALSE, aggression)
             m == Max2(max_eval, r.score)
             al == Max2(alpha, r.score)
             c == calls + r.calls
             e == expanded \cup r.expanded
         IN  IF beta <= al THEN [score |-> m, calls |-> c, expanded |-> e]
             ELSE MaxLoop(moves, k + 1, depth, al, beta, m, c, e, aggression)

MinLoop(moves, k, depth, alpha, beta, min_eval, calls, expanded, aggression) ==
    IF k > Len(moves) THEN [score |-> min_eval, calls |-> calls, expanded |-> expanded]
    ELSE LET r == minimax(moves[k].state, depth - 1, alpha, beta, TRUE, aggression)
             m == Min2(min_eval, r.score)
             be == Min2(beta, r.score)
             c == calls + r.calls
             e == expanded \cup r.expanded
         IN  IF be <= alpha THEN [score |-> m, calls |-> c, expanded |-> e]
             ELSE MinLoop(moves, k + 1, depth, alpha, be, m, c, e, aggression)

\* Faulty variant of _minimax: a side's death does not end the search.
minimax_NoHealthCutoff(st, depth, alpha, beta, is_maximizing, aggression) ==
    IF depth = 0
    THEN [score |-> evaluate(st, aggression), calls |-> 1, expanded |-> {}]
    ELSE IF is_maximizing
    THEN MaxLoop(get_possible_moves(st, TRUE), 1, depth, alpha, beta, NegInf, 1,
                 {<<depth, st>>}, aggression)
    ELSE MinLoop(get_possible_moves(st, FALSE), 1, depth, alpha, beta, PosInf, 1,
                 {<<depth, st>>}, aggression)

minimax(st, depth, alpha, beta, is_maximizing, aggression) ==
    IF depth = 0 \/ st.agent.health <= 0 \/ st.opponent.health <= 0
    THEN [score |-> evaluate(st, aggression), calls |-> 1, expanded |-> {}]
    ELSE IF is_maximizing
    THEN MaxLoop(get_possible_moves(st, TRUE), 1, depth, alpha, beta, NegInf, 1,
                 {<<depth, st>>}, aggression)
    ELSE MinLoop(get_possible_moves(st, FALSE), 1, depth, alpha, beta, PosInf, 1,
                 {<<depth, st>>}, aggression)

\* Faulty variant of RootLoop: a later move of equal score replaces the best.
RECURSIVE RootLoop_KeepLast(_, _, _, _, _, _, _, _, _)
RootLoop_KeepLast(moves, k, depth, alpha, beta, best, calls, expanded, aggression) ==
    IF k > Len(moves)
    THEN [move |-> best.move, score |-> best.score, calls |-> calls, expanded |-> expanded]
    ELSE LET r == minimax(moves[k].state, depth - 1, alpha, beta, FALSE, aggression)
             b == IF r.score >= best.score THEN [move |-> moves[k].name, score |-> r.score]
                  ELSE best
             al == Max2(alpha, r.score)
             c == calls + r.calls
             e == expanded \cup r.expanded
         IN  IF beta <= al
             THEN [move |-> b.move, score |-> b.score, calls |-> c, expanded |-> e]
             ELSE RootLoop_KeepLast(moves, k + 1, depth, al, beta, b, c, e, aggression)

\* the root loop of Minimax.get_best_move
RECURSIVE RootLoop(_, _, _, _, _, _, _, _, _)
RootLoop(moves, k, depth, alpha, beta, best, calls, expanded, aggression) ==
    IF k > Len(moves)
    THEN [move |-> best.move, score |-> best.score, calls |-> calls, expanded |-> expanded]
    ELSE LET r == minimax(moves[k].state, depth - 1, alpha, beta, FALSE, aggression)
             b == IF r.score > best.score THEN [move |-> moves[k].name, score |-> r.score]
                  ELSE best
             al == Max2(alpha, r.score)
             c == calls + r.calls
             e == expanded \cup r.expanded
         IN  IF beta <= al
             THEN [move |-> b.move, score |-> b.score, calls |-> c, expanded |-> e]
             ELSE RootLoop(moves, k + 1, depth, al, beta, b, c, e, aggression)

\* Minimax.get_best_move(state, depth) of a Minimax(aggression)
get_best_move(st, depth, aggression) ==
    RootLoop(get_possible_moves(st, TRUE), 1, depth, NegInf, PosInf,
             [move |-> None, score |-> NegInf], 0, {<<depth, st>>}, aggression)

\* Minimax(aggression): the object with its profiling data
NewMinimax(aggression) ==
    [aggression |-> aggression, profiling_data |-> [calls |-> 0, time_ms |-> 0]]

\* Faulty variant of the method: the search is cut to depth 1 when the
\* profiling data of the previous search report more than 5 calls.
get_best_move_on_Budget(mm, st, depth, elapsed) ==
    LET r == get_best_move(st, IF mm.profiling_data.calls > 5 THEN 1 ELSE depth,
                           mm.aggression)
    IN  [mm |-> [mm EXCEPT !.profiling_data = [calls |-> r.calls, time_ms |-> elapsed]],
         move |-> r.move, score |-> r.score, expanded |-> r.expanded,
         state |-> state_after_moves(st, TRUE)]

\* Faulty variant of the method: the call counter is not reset, it goes on
\* from the searches made before.
get_best_move_on_NoReset(mm, st, depth, elapsed) ==
    LET r == get_best_move(st, depth, mm.aggression)
    IN  [mm |-> [mm EXCEPT !.profiling_data = [calls |-> @.calls + r.calls,
                                               time_ms |-> elapsed]],
         move |-> r.move, score |-> r.score, expanded |-> r.expanded,
         state |-> state_after_moves(st, TRUE)]

\* Minimax.get_best_move as a method: the result and the object after the
\* call, whose profiling data hold the number of _minimax calls and the time
\* the clock measured (elapsed); expanded are the states the search
\* generated moves of
get_best_move_on(mm, st, depth, elapsed) ==
    LET r == get_best_move(st, depth, mm.aggression)
    IN  [mm |-> [mm EXCEPT !.profiling_data = [calls |-> r.calls, time_ms |-> elapsed]],
         move |-> r.move, score |-> r.score, expanded |-> r.expanded,
         state |-> state_after_moves(st, TRUE)]

(***************************************************************************)
(* VisibilitySystem                                                        *)
(*                                                                         *)
(* Visibility scores and confidences are the program's floats times        *)
(* FuzzyScale.                                                             *)
(***************************************************************************)

\* TargetEstimate; `present` tells the entries of the beliefs from the
\* missing ones
TargetEstimate(estimated_pos, confidence, last_seen_time) ==
    [present |-> TRUE, estimated_pos |-> estimated_pos, confidence |-> confidence,
     last_seen_time |-> last_seen_time]

NoEstimate ==
    [present |-> FALSE, estimated_pos |-> <<0, 0>>, confidence |-> 0, last_seen_time |-> 0]

\* VisibilitySystem.calculate_visibility_confidence, max_range = 15
calculate_visibility_confidence(observer_pos, target_pos) ==
    LET dx == observer_pos[1] - target_pos[1]
        dy == observer_pos[2] - target_pos[2]
        d2 == dx * dx + dy * dy
        dist == ISqrt(10000 * d2, 0, 100 * (d2 + 1))
    IN  IF dist > 1500 THEN 0
        ELSE Max2(0, FuzzyScale - (dist * FuzzyScale) \div 1500)

\* the confidence of a call that sees the target, and the range of its noise
final_confidence(vis_score, health_ctx, ammo_ctx) ==
    Min2(FuzzyScale,
         Max2(0, (vis_score * 7 + evaluate_confidence(health_ctx, ammo_ctx) * 3) \div 10))

noise_range(confidence) == ((FuzzyScale - confidence) * 5) \div FuzzyScale

\* the values random.randint(-noise_range, noise_range) is taken to return:
\* the two ends and the middle
NoiseChoices(range) == {-range, 0, range}

\* Faulty variant of update_belief: a belief whose confidence decays to 0 is
\* removed from the beliefs.
update_belief_ForgetAtZero(beliefs, observer_id, observer_pos, target_id, target_pos, current_time, health_ctx, ammo_ctx) ==
    LET vis_score == calculate_visibility_confidence(observer_pos, target_pos)
        current_belief == beliefs[observer_id][target_id]
    IN  IF vis_score <= 10
        THEN IF current_belief.present
             THEN LET new_conf == Max2(0, current_belief.confidence - 100)
                      decayed == IF new_conf = 0 THEN NoEstimate
                                 ELSE [current_belief EXCEPT !.confidence = new_conf]
                  IN  {[beliefs |-> [beliefs EXCEPT ![observer_id][target_id] = decayed],
                        estimate |-> [current_belief EXCEPT !.confidence = new_conf]]}
             ELSE {[beliefs |-> beliefs,
                    estimate |-> TargetEstimate(<<0, 0>>, 0, current_time)]}
        ELSE LET conf == final_confidence(vis_score, health_ctx, ammo_ctx)
                 noise == IF conf > 800 THEN {0} ELSE NoiseChoices(noise_range(conf))
             IN  {[beliefs |-> [beliefs EXCEPT ![observer_id][target_id] =
                                   TargetEstimate(<<target_pos[1] + nx, target_pos[2] + ny>>,
                                                  conf, current_time)],
                   estimate |-> TargetEstimate(<<target_pos[1] + nx, target_pos[2] + ny>>,
                                               conf, current_time)] :
                     nx \in noise, ny \in noise}

\* VisibilitySystem.update_belief: the possible outcomes, each the beliefs
\* after the call and the estimate returned
update_belief(beliefs, observer_id, observer_pos, target_id, target_pos, current_time, health_ctx, ammo_ctx) ==
    LET vis_score == calculate_visibility_confidence(observer_pos, target_pos)
        current_belief == beliefs[observer_id][target_id]
    IN  IF vis_score <= 10
        THEN IF current_belief.present
             THEN LET new_conf == Max2(0, current_belief.confidence - 100)
                      decayed == [current_belief EXCEPT !.confidence = new_conf]
                  IN  {[beliefs |-> [beliefs EXCEPT ![observer_id][target_id] = decayed],
                        estimate |-> decayed]}
             ELSE {[beliefs |-> beliefs,
                    estimate |-> TargetEstimate(<<0, 0>>, 0, current_time)]}
        ELSE LET conf == final_confidence(vis_score, health_ctx, ammo_ctx)
                 noise == IF conf > 800 THEN {0} ELSE NoiseChoices(noise_range(conf))
             IN  {[beliefs |-> [beliefs EXCEPT ![observer_id][target_id] =
                                   TargetEstimate(<<target_pos[1] + nx, target_pos[2] + ny>>,
                                                  conf, current_time)],
                   estimate |-> TargetEstimate(<<target_pos[1] + nx, target_pos[2] + ny>>,
                                               conf, current_time)] :
                     nx \in noise, ny \in noise}

(***************************************************************************)
(* FightState                                                              *)
(***************************************************************************)

\* FightState(minimax=None, depth=1): Minimax(aggression=0.8), in tenths
FightAggression == 8
FightDepth == 1

\* attack_range in FightState.execute
attack_range == 5

\* FightState.enter
FightEnter(a) ==
    [a EXCEPT !.path = <<>>, !.path_index = 0,
              !.fight_repath_ticks = 0, !.fight_target_pos = NoPos]

\* FightState.exit
FightExit(a) ==
    [a EXCEPT !.path = <<>>, !.path_index = 0,
              !.fight_repath_ticks = 0, !.fight_target_pos = NoPos,
              !.pending_attack_target_id = NoId]

\* min(potential_targets, key=(chebyshev, health)): the first of the list
\* with the smallest key
RECURSIVE NearestTarget(_, _, _, _, _)
NearestTarget(ws, a, rv, k, best) ==
    IF k > Len(rv) THEN best
    ELSE LET o == ws.agents[rv[k]]
             b == ws.agents[best]
             d == chebyshev(a.x, a.y, o.x, o.y)
             bd == chebyshev(a.x, a.y, b.x, b.y)
         IN  IF d < bd \/ (d = bd /\ o.health < b.health)
             THEN NearestTarget(ws, a, rv, k + 1, rv[k])
             ELSE NearestTarget(ws, a, rv, k + 1, best)

\* the scan for best_tile: the walkable tile within attack_range of the target
\* that is nearest to the agent in Manhattan distance, the first in row-major
\* order among equals; NoPos when there is none
BestTile(a, target, w) ==
    LET tiles == {c \in Cells : /\ chebyshev(c[1], c[2], target.x, target.y) <= attack_range
                                /\ is_walkable(w, c[1], c[2])}
        d(c) == Abs(a.x - c[1]) + Abs(a.y - c[2])
        before(c, e) == c[2] < e[2] \/ (c[2] = e[2] /\ c[1] < e[1])
    IN  IF tiles = {} THEN NoPos
        ELSE CHOOSE c \in tiles :
                 \A e \in tiles \ {c} : d(c) < d(e) \/ (d(c) = d(e) /\ before(c, e))

\* neighbors.sort(key=chebyshev to target); neighbors[0]
ClosestNeighbor(a, target, w) ==
    LET nbs == SelectSeq(get_neighbors(w, a.x, a.y),
                         LAMBDA n : is_walkable(w, n[1], n[2]))
        key(n) == chebyshev(n[1], n[2], target.x, target.y)
        first == CHOOSE k \in 1..Len(nbs) :
                     \A j \in 1..Len(nbs) :
                         key(nbs[k]) < key(nbs[j]) \/ (key(nbs[k]) = key(nbs[j]) /\ k <= j)
    IN  IF nbs = <<>> THEN NoPos ELSE nbs[first]

\* the approach block of FightState.execute (target out of attack range)
FightApproach(ws, a, target) ==
    LET w == WorldOf(ws)
        a1 == [a EXCEPT !.fight_repath_ticks = @ + 1]
        target_pos == <<target.x, target.y>>
        repath == /\ HasWorld(ws)
                  /\ \/ a1.path = <<>>
                     \/ a1.path_index >= Len(a1.path)
                     \/ a1.fight_target_pos # target_pos
                     \/ a1.fight_repath_ticks >= 4
        a2 == [a1 EXCEPT !.fight_repath_ticks = 0, !.fight_target_pos = target_pos]
        best_tile == BestTile(a2, target, w)
        a3 == IF best_tile # NoPos THEN plan_path(a2, best_tile, w) ELSE a2
        planned == best_tile # NoPos /\ Len(a3.path) >= 2
        nb == ClosestNeighbor(a3, target, w)
    IN  IF ~repath THEN a1
        ELSE IF planned THEN a3
        ELSE IF nb # NoPos THEN set_path(a3, <<nb>>)
        ELSE a3

\* the combat block of FightState.execute (target within attack range)
FightCombat(ws, i, a, tid) ==
    LET target == ws.agents[tid]
        st == [agent |-> [x |-> a.x, y |-> a.y, health |-> a.health, ammo |-> a.ammo],
               opponent |-> [x |-> target.x, y |-> target.y,
                             health |-> target.health, ammo |-> target.ammo]]
        move == get_best_move(st, FightDepth, FightAggression).move
        dx == IF move = "MOVE_LEFT" THEN -1 ELSE IF move = "MOVE_RIGHT" THEN 1 ELSE 0
        dy == IF move = "MOVE_UP" THEN -1 ELSE IF move = "MOVE_DOWN" THEN 1 ELSE 0
        damage == 10 + a.upgrades.weapon_damage * 5
    IN  IF move = "ATTACK"
        THEN LET shot == [a EXCEPT !.pending_attack_target_id = target.id, !.ammo = @ - 1]
                 hit == [ws.agents EXCEPT ![i] = shot]
             IN  [agents |-> IF HasEconomy(ws)
                             THEN [hit EXCEPT ![tid].health = @ - damage]
                             ELSE hit,
                  resources |-> ws.resources, nxt |-> None]
        ELSE IF (dx # 0 \/ dy # 0)
                /\ (~HasWorld(ws) \/ is_walkable(WorldOf(ws), a.x + dx, a.y + dy))
        THEN Out(ws, i, set_path(a, << <<a.x + dx, a.y + dy>> >>), None)
        ELSE Out(ws, i, a, None)

\* Faulty variant of FightTransition: the health threshold is strict.
FightTransition_StrictThreshold(ws, a) ==
    IF a.health < 20 THEN "FLEE"
    ELSE IF a.ammo <= 0 THEN "SCAVENGE"
    ELSE IF Rivals(ws, a) = <<>> THEN "SCAVENGE"
    ELSE None

\* the transition checks that open FightState.execute
FightTransition(ws, a) ==
    IF a.health <= 20 THEN "FLEE"
    ELSE IF a.ammo <= 0 THEN "SCAVENGE"
    ELSE IF Rivals(ws, a) = <<>> THEN "SCAVENGE"
    ELSE None

\* FightState.execute
FightExecute(ws, i) ==
    LET a == ws.agents[i]
        t == FightTransition(ws, a)
        rv == Rivals(ws, a)
        tid == NearestTarget(ws, a, rv, 2, rv[1])
        target == ws.agents[tid]
    IN  IF t # None THEN {Out(ws, i, a, t)}
        ELSE IF chebyshev(a.x, a.y, target.x, target.y) <= attack_range
        THEN {FightCombat(ws, i, a, tid)}
        ELSE {Out(ws, i, FightApproach(ws, a, target), None)}

(***************************************************************************)
(* FleeState                                                               *)
(***************************************************************************)

\* FleeState.enter
FleeEnter(a) == [a EXCEPT !.path = <<>>, !.path_index = 0, !.flee_ticks = 0]

\* FleeState.exit
FleeExit(a) == [a EXCEPT !.path = <<>>, !.path_index = 0, !.flee_ticks = 0]

Sign(n) == IF n = 0 THEN 0 ELSE IF n > 0 THEN 1 ELSE -1

RECURSIVE SumSeq(_, _)
SumSeq(f, k) == IF k = 0 THEN 0 ELSE f[k] + SumSeq(f, k - 1)

Clamp(lo, hi, n) == Max2(lo, Min2(hi, n))

\* the distances tried away from the threats, in order
FleeDistances == <<5, 8, 12, 16>>

\* the cells the directed candidate for distance dist may be, over the two
\* random.randint(-2, 2) offsets
DirectedCells(a, step_x, step_y, dist) ==
    {<<Clamp(0, Width - 1, a.x + step_x * dist + ox),
       Clamp(0, Height - 1, a.y + step_y * dist + oy)>> : ox \in -2..2, oy \in -2..2}

\* the replanning block of FleeState.execute.  A candidate is skipped when it
\* is the agent's own cell or not walkable, tried (and the path cleared) when
\* no path of two cells leads to it, and taken otherwise; the directed
\* candidates come first, then 18 random cells.
FleeReplan(ws, a) ==
    LET w == WorldOf(ws)
        rv == Rivals(ws, a)
        own == <<a.x, a.y>>
        usable(c) == c # own /\ is_walkable(w, c[1], c[2])
        good(c) == usable(c) /\ Plannable(a, c, w)
        tried(c) == usable(c) /\ ~Plannable(a, c, w)
        vx == SumSeq([k \in 1..Len(rv) |-> a.x - ws.agents[rv[k]].x], Len(rv))
        vy == SumSeq([k \in 1..Len(rv) |-> a.y - ws.agents[rv[k]].y], Len(rv))
        steps == IF rv = <<>> THEN {<<0, 0>>}
                 ELSE IF vx = 0 /\ vy = 0 THEN {<<sx, sy>> : sx \in {-1, 1}, sy \in {-1, 1}}
                 ELSE {<<Sign(vx), Sign(vy)>>}
        n == IF rv = <<>> THEN 0 ELSE Len(FleeDistances)
        D(s, k) == DirectedCells(a, s[1], s[2], FleeDistances[k])
        \* every directed candidate before the k-th can be one that is not taken
        passable(s, k) == \A j \in 1..(k - 1) : \E c \in D(s, j) : ~good(c)
        taken == {c \in Cells : good(c) /\
                     \E s \in steps :
                        \/ \E k \in 1..n : c \in D(s, k) /\ passable(s, k)
                        \/ passable(s, n + 1)}
        \* no candidate taken: the path is cleared if some candidate was tried
        failed == {[b |-> [a EXCEPT !.path = <<>>, !.path_index = 0]] :
                      c \in {c \in Cells : tried(c) /\ \E s \in steps : passable(s, n + 1)}}
                  \cup {[b |-> a] :
                      s \in {s \in steps : \A k \in 1..n : \E c \in D(s, k) : ~usable(c)}}
        nbs(b) == WalkableNeighbors(b, w)
    IN  {plan_path(a, c, w) : c \in taken}
        \cup UNION {IF nbs(f.b) # {} THEN {plan_path(f.b, nb, w) : nb \in nbs(f.b)}
                    ELSE {f.b} : f \in failed}

\* FleeState.execute
FleeExecute(ws, i) ==
    LET a == ws.agents[i]
        a1 == [a EXCEPT !.flee_ticks = @ + 1]
        rv == Rivals(ws, a)
        dists == {Abs(a.x - ws.agents[rv[k]].x) + Abs(a.y - ws.agents[rv[k]].y) :
                     k \in 1..Len(rv)}
        clear == rv = <<>> \/ \A d \in dists : d >= 10
        is_path_finished == a1.path = <<>> \/ a1.path_index >= Len(a1.path)
    IN  IF a.health > 70 THEN {Out(ws, i, a, "SCAVENGE")}
        ELSE IF ~HasWorld(ws) THEN {Out(ws, i, a1, None)}
        ELSE IF a1.flee_ticks >= 3 /\ clear
        THEN IF a1.health < 60 /\ a1.inventory.food > 0
             THEN {Out(ws, i, a1, "EAT")}
             ELSE {Out(ws, i, a1, "SCAVENGE")}
        ELSE IF a1.flee_ticks >= 30 THEN {Out(ws, i, a1, "SCAVENGE")}
        ELSE IF is_path_finished THEN {Out(ws, i, b, None) : b \in FleeReplan(ws, a1)}
        ELSE {Out(ws, i, a1, None)}

(***************************************************************************)
(* FiniteStateMachine                                                      *)
(***************************************************************************)

Enter(name, a) ==
    CASE name = "FIGHT"    -> FightEnter(a)
      [] name = "FLEE"     -> FleeEnter(a)
      [] name = "SCAVENGE" -> ScavengeEnter(a)
      [] name = "EAT"      -> EatEnter(a)
      [] name = "UPGRADE"  -> UpgradeEnter(a)

Exit(name, a) ==
    CASE name = "FIGHT"    -> FightExit(a)
      [] name = "FLEE"     -> FleeExit(a)
      [] name = "SCAVENGE" -> ScavengeExit(a)
      [] name = "EAT"      -> EatExit(a)
      [] name = "UPGRADE"  -> UpgradeExit(a)

Execute(ws, i) ==
    CASE ws.agents[i].state = "FIGHT"    -> FightExecute(ws, i)
      [] ws.agents[i].state = "FLEE"     -> FleeExecute(ws, i)
      [] ws.agents[i].state = "SCAVENGE" -> ScavengeExecute(ws, i)
      [] ws.agents[i].state = "EAT"      -> EatExecute(ws, i)
      [] ws.agents[i].state = "UPGRADE"  -> UpgradeExecute(ws, i)

\* Faulty variant of set_state: the new state is entered before the old one
\* is exited.
set_state_EnterFirst(a, state_name, calls) ==
    IF state_name \notin StateNames
    THEN [a |-> a, calls |-> calls]
    ELSE LET entered == Enter(state_name, a)
             exited == Exit(a.state, [entered EXCEPT !.state = state_name])
         IN  [a |-> exited,
              calls |-> calls \o << <<"enter", state_name>>, <<"exit", a.state>> >>]

\* Faulty variant of set_state: an unknown name falls back to SCAVENGE.
set_state_Fallback(a, state_name, calls) ==
    LET name == IF state_name \in StateNames THEN state_name ELSE "SCAVENGE"
        exited == Exit(a.state, a)
        entered == Enter(name, [exited EXCEPT !.state = name])
    IN  [a |-> entered, calls |-> calls \o << <<"exit", a.state>>, <<"enter", name>> >>]

\* FiniteStateMachine.set_state (and transition, which only calls it): the
\* agent afterwards and the hooks called, appended to calls
set_state(a, state_name, calls) ==
    IF state_name \notin StateNames
    THEN [a |-> a, calls |-> calls]
    ELSE LET exited == Exit(a.state, a)
             entered == Enter(state_name, [exited EXCEPT !.state = state_name])
         IN  [a |-> entered,
              calls |-> calls \o << <<"exit", a.state>>, <<"enter", state_name>> >>]

\* FiniteStateMachine.update: the world states it may leave, with the hooks
\* called
fsm_update(ws, i) ==
    {LET executed == << <<"execute", ws.agents[i].state>> >>
         moved == set_state(o.agents[i], o.nxt, executed)
     IN  IF o.nxt # None
         THEN [agents |-> [o.agents EXCEPT ![i] = moved.a], resources |-> o.resources,
               calls |-> moved.calls]
         ELSE [agents |-> o.agents, resources |-> o.resources, calls |-> executed] :
        o \in Execute(ws, i)}

(***************************************************************************)
(* BaseAgent.update, NetworkedAgent                                        *)
(***************************************************************************)

\* the movement step that ends BaseAgent.update
FollowPath(a) ==
    IF a.path # <<>> /\ a.path_index < Len(a.path)
    THEN [a EXCEPT !.x = a.path[a.path_index + 1][1],
                   !.y = a.path[a.path_index + 1][2],
                   !.path_index = @ + 1]
    ELSE a

\* BaseAgent.update(world_state)
base_update(ws, i) ==
    {[agents |-> [r.agents EXCEPT ![i] = FollowPath(r.agents[i])],
      resources |-> r.resources, calls |-> r.calls] : r \in fsm_update(ws, i)}

\* Faulty variant of AttackTargetId: the agent itself is not taken out of
\* the list, so the nearest agent is the attacker.
AttackTargetId_Self(ws, a) ==
    IF AgentList(ws) = <<>> THEN NoId ELSE a.id

\* others.sort(key=manhattan); others[0].id, over every other agent of the
\* list; NoId (None) when there is none
AttackTargetId(ws, a) ==
    LET others == SelectSeq(AgentList(ws), LAMBDA k : ws.agents[k].id # a.id)
        key(k) == Abs(ws.agents[k].x - a.x) + Abs(ws.agents[k].y - a.y)
        first == CHOOSE k \in 1..Len(others) :
                     \A j \in 1..Len(others) :
                         key(others[k]) < key(others[j])
                         \/ (key(others[k]) = key(others[j]) /\ k <= j)
    IN  IF others = <<>> THEN NoId ELSE ws.agents[others[first]].id

\* World.get_resource_at / ProxyWorld.get_resource_at, as "is there one"
HasResourceAt(rs, x, y) == \E k \in 1..Len(rs) : rs[k].x = x /\ rs[k].y = y

\* Faulty variant of NetRollback: the spent round is not restored.
NetRollback_KeepAmmo(before, a0) ==
    IF <<a0.x, a0.y>> # <<before.x, before.y>>
    THEN [a0 EXCEPT !.x = before.x, !.y = before.y] ELSE a0

\* the two rollbacks of NetworkedAgent.update: a spent round is restored
\* ("self.ammo = old_ammo") and a direct move undone ("self.x, self.y = old_pos")
NetRollback(before, a0) ==
    LET a1 == IF a0.ammo < before.ammo THEN [a0 EXCEPT !.ammo = before.ammo] ELSE a0
    IN  IF <<a1.x, a1.y>> # <<before.x, before.y>>
        THEN [a1 EXCEPT !.x = before.x, !.y = before.y] ELSE a1

\* what NetworkedAgent.update does after the FSM has run: before is the agent
\* when update was called, r the outcome of fsm.update.  Gives the agent and
\* the packet.
NetAfterFsm(ws, i, before, r) ==
    LET a0 == r.agents[i]
        attacked == a0.ammo < before.ammo
        target_id == IF attacked THEN AttackTargetId([ws EXCEPT !.agents = r.agents], a0)
                     ELSE NoId
        moved == <<a0.x, a0.y>> # <<before.x, before.y>>
        move1 == IF moved THEN <<a0.x, a0.y>> ELSE NoPos
        a2 == NetRollback(before, a0)
        idle == ~attacked /\ ~moved
        exhausted == a2.path = <<>> \/ a2.path_index >= Len(a2.path)
        a3 == IF idle /\ a2.state = "FLEE" /\ exhausted
              THEN [a2 EXCEPT !.path = <<>>, !.path_index = 0]
              ELSE IF idle /\ a2.state = "UPGRADE"
              THEN [a2 EXCEPT !.pending_upgrade_type = IF @ = None THEN "MAX_HEALTH" ELSE @]
              ELSE a2
        action == IF attacked THEN "ATTACK"
                  ELSE IF ~idle THEN None
                  ELSE IF a2.state = "SCAVENGE"
                  THEN (IF HasWorld(ws) /\ HasResourceAt(r.resources, a2.x, a2.y)
                        THEN "SCAVENGE" ELSE None)
                  ELSE IF a2.state = "EAT" THEN "EAT"
                  ELSE IF a2.state = "UPGRADE" THEN "UPGRADE"
                  ELSE None
        follow == ~moved /\ action = None /\ a3.path # <<>> /\ a3.path_index < Len(a3.path)
        a4 == IF follow /\ <<a3.x, a3.y>> = a3.path[a3.path_index + 1]
              THEN [a3 EXCEPT !.path_index = @ + 1] ELSE a3
        move_to == IF moved THEN move1
                   ELSE IF follow /\ a4.path_index < Len(a4.path)
                   THEN a4.path[a4.path_index + 1]
                   ELSE NoPos
        upgrade_type == IF a4.pending_upgrade_type = None THEN "MAX_HEALTH"
                        ELSE a4.pending_upgrade_type
    IN  [a |-> a4,
         packet |-> [type |-> "action", agent_id |-> a4.id, action |-> action,
                     position |-> move_to,
                     target_id |-> IF action = "ATTACK" THEN target_id ELSE NoId,
                     upgrade_type |-> IF action = "UPGRADE" THEN upgrade_type ELSE None]]

\* no packet: the call returned None, or was not an update of the client
NoPacket ==
    [type |-> None, agent_id |-> NoId, action |-> None, position |-> NoPos,
     target_id |-> NoId, upgrade_type |-> None]

\* Faulty variant of net_update: a tick on which the FSM decided nothing
\* returns no packet (None), as if the filter of on_server_message were in
\* update.
net_update_SkipIdle(ws, i) ==
    {LET n == NetAfterFsm(ws, i, ws.agents[i], r)
     IN  [agents |-> [r.agents EXCEPT ![i] = n.a], resources |-> r.resources,
          calls |-> r.calls,
          packet |-> IF n.packet.action = None /\ n.packet.position = NoPos
                     THEN NoPacket ELSE n.packet] : r \in fsm_update(ws, i)}

\* NetworkedAgent.update(world_state): outcomes with the packet returned
net_update(ws, i) ==
    {LET n == NetAfterFsm(ws, i, ws.agents[i], r)
     IN  [agents |-> [r.agents EXCEPT ![i] = n.a], resources |-> r.resources,
          calls |-> r.calls, packet |-> n.packet] : r \in fsm_update(ws, i)}

\* Faulty variant of ApplySelfData: the inventory keeps what the local agent
\* holds beyond the snapshot (a merge instead of an overwrite).
ApplySelfData_MergeInventory(a, self_data) ==
    [a EXCEPT !.x = self_data.x, !.y = self_data.y,
              !.health = self_data.health,
              !.max_health = IF self_data.max_health # NoMaxHealth
                             THEN self_data.max_health ELSE @,
              !.ammo = self_data.ammo,
              !.inventory = [food  |-> Max2(@.food, self_data.inventory.food),
                             scrap |-> Max2(@.scrap, self_data.inventory.scrap),
                             ammo  |-> Max2(@.ammo, self_data.inventory.ammo),
                             owned |-> @.owned \cup self_data.inventory.owned]]

\* the overwrite of the local fields from server_data["self"]
ApplySelfData(a, self_data) ==
    [a EXCEPT !.x = self_data.x, !.y = self_data.y,
              !.health = self_data.health,
              !.max_health = IF self_data.max_health # NoMaxHealth
                             THEN self_data.max_health ELSE @,
              !.ammo = self_data.ammo,
              !.inventory = self_data.inventory]

\* Faulty variant of update_from_server: a path is kept when the snapshot
\* puts the agent somewhere else than on its next cell.
update_from_server_KeepPath(a, self_data) ==
    LET old_pos == <<a.x, a.y>>
        a1 == ApplySelfData(a, self_data)
        a2 == [a1 EXCEPT !.stuck_ticks = IF <<a1.x, a1.y>> = old_pos THEN @ + 1 ELSE 0]
        a3 == IF a2.stuck_ticks >= 3 /\ a2.path # <<>>
              THEN [a2 EXCEPT !.path = <<>>, !.path_index = 0, !.stuck_ticks = 0]
              ELSE a2
    IN  IF a3.path # <<>> /\ a3.path_index < Len(a3.path)
           /\ <<a3.x, a3.y>> = a3.path[a3.path_index + 1]
        THEN [a3 EXCEPT !.path_index = @ + 1]
        ELSE a3

\* Faulty variant of update_from_server: on an unexpected position the path
\* is repaired (cut down to its last cell) instead of discarded.
update_from_server_Repair(a, self_data) ==
    LET old_pos == <<a.x, a.y>>
        a1 == ApplySelfData(a, self_data)
        a2 == [a1 EXCEPT !.stuck_ticks = IF <<a1.x, a1.y>> = old_pos THEN @ + 1 ELSE 0]
        a3 == IF a2.stuck_ticks >= 3 /\ a2.path # <<>>
              THEN [a2 EXCEPT !.path = <<>>, !.path_index = 0, !.stuck_ticks = 0]
              ELSE a2
    IN  IF a3.path # <<>> /\ a3.path_index < Len(a3.path)
        THEN IF <<a3.x, a3.y>> = a3.path[a3.path_index + 1]
             THEN [a3 EXCEPT !.path_index = @ + 1]
             ELSE IF <<a3.x, a3.y>> # old_pos
             THEN [a3 EXCEPT !.path = <<a3.path[Len(a3.path)]>>, !.path_index = 0]
             ELSE a3
        ELSE a3

\* NetworkedAgent.update_from_server(server_data), self_data = server_data["self"]
update_from_server(a, self_data) ==
    LET old_pos == <<a.x, a.y>>
        a1 == ApplySelfData(a, self_data)
        a2 == [a1 EXCEPT !.stuck_ticks = IF <<a1.x, a1.y>> = old_pos THEN @ + 1 ELSE 0]
        a3 == IF a2.stuck_ticks >= 3 /\ a2.path # <<>>
              THEN [a2 EXCEPT !.path = <<>>, !.path_index = 0, !.stuck_ticks = 0]
              ELSE a2
    IN  IF a3.path # <<>> /\ a3.path_index < Len(a3.path)
        THEN IF <<a3.x, a3.y>> = a3.path[a3.path_index + 1]
             THEN [a3 EXCEPT !.path_index = @ + 1]
             ELSE IF <<a3.x, a3.y>> # old_pos
             THEN [a3 EXCEPT !.path = <<>>, !.path_index = 0]
             ELSE a3
        ELSE a3

(***************************************************************************)
(* Runs: construction, the calls made on the program, the inputs           *)
(***************************************************************************)

\* cap on the number of calls made in a run (update as in max_ticks of
\* run_simulation, and set_state)
MaxTicks == 3

Modes == {"mock", "local", "net"}

\* constructor arguments of the agent under test
InitHealth == {20, 25, 45, 100}
InitAmmo == {0, 2}
InitInventory ==
    {[EmptyInventory EXCEPT !.food = f, !.scrap = s] : f \in {0, 1}, s \in {0, 15, 25}}

\* the second agent of the engine
RivalHealth == {0, 100}

\* world.resources of the engine's world
InitResources ==
    << [x |-> 2, y |-> 0, type |-> "scrap", amount |-> 5],
       [x |-> 0, y |-> 1, type |-> "food", amount |-> 1] >>

\* ProxyAgent(d): d.get("ammo", 0)
ProxyOf(id, d) ==
    [NewAgent(id, d.x, d.y, d.health, d.ammo, EmptyInventory) EXCEPT !.present = d.present]

Absent(id) == ProxyOf(id, [x |-> 0, y |-> 0, health |-> 0, ammo |-> 0, present |-> FALSE])

\* server snapshots: state["self"], and the scene (state["others"],
\* state["resources"]) around it
SnapSelf ==
    {[x |-> c[1], y |-> c[2], health |-> h, max_health |-> NoMaxHealth, ammo |-> am, inventory |-> inv] :
        c \in {<<0, 0>>, <<1, 0>>}, h \in {20, 100}, am \in {0, 2},
        inv \in {EmptyInventory, [EmptyInventory EXCEPT !.food = 1],
                 [EmptyInventory EXCEPT !.scrap = 15]}}

SnapOthers ==
    {[x |-> 0, y |-> 0, health |-> 0, ammo |-> 0, present |-> FALSE],
     [x |-> 2, y |-> 0, health |-> 100, ammo |-> 5, present |-> TRUE],
     [x |-> 2, y |-> 0, health |-> 0, ammo |-> 5, present |-> TRUE]}

SnapResources ==
    {<<>>, InitResources}

NoSnap ==
    [x |-> -1, y |-> -1, health |-> 0, max_health |-> NoMaxHealth, ammo |-> 0,
     inventory |-> EmptyInventory]

\* the last call: the operation, the agent it was made on, its argument (a
\* state name or a snapshot), the hooks it ran and the packet it returned;
\* with_path counts the client's latest snapshots in a row that confirmed an
\* unchanged position while the agent had a path
Call(op, id, name, snap, calls, packet) ==
    [op |-> op, id |-> id, name |-> name, snap |-> snap, calls |-> calls, packet |-> packet,
     with_path |-> 0]

\* no pure function called
NoQuery == [fn |-> None]

\* the agents a caller holds: the test's agent, the engine's agents, the
\* client's local agent
Real(i) == IF mode = "local" THEN i \in Ids ELSE i = 1

WS == [mode |-> mode, agents |-> agents, resources |-> resources]

Init ==
    /\ mode \in Modes
    /\ \E h \in InitHealth, am \in InitAmmo, inv \in InitInventory, rh \in RivalHealth :
          agents = [i \in Ids |->
                      IF i = 1
                      THEN (IF mode = "net" THEN NewAgent(1, 0, 0, 100, 20, EmptyInventory)
                            ELSE NewAgent(1, 0, 0, h, am, inv))
                      ELSE IF mode = "local" THEN NewAgent(i, 2, 1, rh, 2, EmptyInventory)
                      ELSE Absent(i)]
    /\ resources = IF mode = "local" THEN InitResources ELSE <<>>
    /\ ticks = 0
    /\ last = Call("init", 0, None, NoSnap, <<>>, NoPacket)
    /\ query = NoQuery

\* agent.update(world_state) on a BaseAgent: a test's call, or one agent's
\* turn in Game._fixed_update, which skips dead agents
BaseUpdate(i) ==
    /\ mode \in {"mock", "local"}
    /\ Real(i)
    /\ mode = "local" => agents[i].health > 0
    /\ ticks < MaxTicks
    /\ \E r \in base_update(WS, i) :
          /\ agents' = r.agents
          /\ resources' = r.resources
          /\ last' = Call("update", i, None, NoSnap, r.calls, NoPacket)
    /\ ticks' = ticks + 1
    /\ UNCHANGED <<mode, query>>

\* agent.fsm.set_state(name), as the tests call it on a BaseAgent (the client
\* never calls it on its NetworkedAgent)
SetState(i, name) ==
    /\ mode \in {"mock", "local"}
    /\ Real(i)
    /\ ticks < MaxTicks
    /\ LET r == set_state(agents[i], name, <<>>)
       IN  /\ agents' = [agents EXCEPT ![i] = r.a]
           /\ last' = Call("set_state", i, name, NoSnap, r.calls, NoPacket)
    /\ ticks' = ticks + 1
    /\ UNCHANGED <<mode, resources, query>>

\* on_server_message, "update": the snapshot is applied to the local agent,
\* then to the world and the proxies of the other agents
Snapshot(self_data, others, res) ==
    /\ mode = "net"
    /\ last.op # "snapshot"
    /\ ticks < MaxTicks
    /\ agents' = [i \in Ids |-> IF i = 1 THEN update_from_server(agents[1], self_data)
                                ELSE ProxyOf(i, others)]
    /\ resources' = res
    /\ last' = [Call("snapshot", 1, None, self_data, <<>>, NoPacket) EXCEPT
                   !.with_path =
                       IF <<self_data.x, self_data.y>> = <<agents[1].x, agents[1].y>>
                          /\ agents[1].path # <<>>
                       THEN (IF last.with_path + 1 >= 3 THEN 0 ELSE last.with_path + 1)
                       ELSE 0]
    /\ UNCHANGED <<mode, ticks, query>>

\* on_server_message, "update", continued: local_agent.update(game_state)
NetUpdate ==
    /\ mode = "net"
    /\ last.op = "snapshot"
    /\ \E r \in net_update(WS, 1) :
          /\ agents' = r.agents
          /\ resources' = r.resources
          /\ last' = [Call("net_update", 1, None, NoSnap, r.calls, r.packet) EXCEPT
                         !.with_path = last.with_path]
    /\ ticks' = ticks + 1
    /\ UNCHANGED <<mode, query>>

Next ==
    \/ \E i \in Ids : BaseUpdate(i)
    \/ \E i \in Ids, name \in StateNames \cup {"INVALID_STATE"} : SetState(i, name)
    \/ \E sd \in SnapSelf, o \in SnapOthers, res \in SnapResources : Snapshot(sd, o, res)
    \/ NetUpdate

Spec == Init /\ [][Next]_vars

(***************************************************************************)
(* Long runs: the engine's loop and the tests' calls with no limit on the  *)
(* number of ticks, for the one agent left alive (the engine's second      *)
(* agent is dead).  The counters the program lets grow are capped.         *)
(***************************************************************************)

\* caps on agent._scavenge_ticks and agent._flee_ticks
MaxScavengeTicks == 4
MaxFleeTicks == 31

\* inventories of an agent that has bought the first upgrade of each type
RunInventory ==
    {[EmptyInventory EXCEPT !.food = f, !.scrap = s, !.owned = o] :
        f \in {0, 1}, s \in {0, 15, 25},
        o \in {{}, {"Leather Armor", "Sharpened Blade"}}}

RunInit ==
    /\ mode \in {"mock", "local"}
    /\ \E h \in InitHealth, am \in InitAmmo, inv \in RunInventory :
          agents = [i \in Ids |->
                      IF i = 1 THEN NewAgent(1, 0, 0, h, am, inv)
                      ELSE IF mode = "local" THEN NewAgent(i, 2, 1, 0, 2, EmptyInventory)
                      ELSE Absent(i)]
    /\ resources = IF mode = "local" THEN InitResources ELSE <<>>
    /\ ticks = 0
    /\ last = Call("init", 0, None, NoSnap, <<>>, NoPacket)
    /\ query = NoQuery

\* agent.update(world_state): a test's call, or the agent's turn in
\* Game._fixed_update
RunUpdate(i) ==
    /\ Real(i)
    /\ mode = "local" => agents[i].health > 0
    /\ agents[i].scavenge_ticks < MaxScavengeTicks
    /\ agents[i].flee_ticks < MaxFleeTicks
    /\ \E r \in base_update(WS, i) :
          /\ agents' = r.agents
          /\ resources' = r.resources
          /\ last' = Call("update", i, None, NoSnap, r.calls, NoPacket)
    /\ UNCHANGED <<mode, ticks, query>>

\* agent.fsm.set_state(name) by a test
RunSetState(name) ==
    /\ last.op # "set_state"
    /\ LET r == set_state(agents[1], name, <<>>)
       IN  /\ agents' = [agents EXCEPT ![1] = r.a]
           /\ last' = Call("set_state", 1, name, NoSnap, r.calls, NoPacket)
    /\ UNCHANGED <<mode, resources, ticks, query>>

RunNext ==
    \/ \E i \in Ids : RunUpdate(i)
    \/ \E name \in {"FIGHT", "FLEE"} : RunSetState(name)

RunSpec == RunInit /\ [][RunNext]_vars

(***************************************************************************)
(* The engine's simulation over a world that holds ammo                    *)
(***************************************************************************)

\* rounds the agents start with
AmmoLevels == {0, 1, 2}

\* world.resources with ammo on the first agent's tile and next to it
AmmoResources ==
    << [x |-> 0, y |-> 0, type |-> "ammo", amount |-> 10],
       [x |-> 1, y |-> 0, type |-> "ammo", amount |-> 5] >>

\* Game.__init__ with two agents, the second one within sight of the first
AmmoInit ==
    /\ mode = "local"
    /\ \E h \in InitHealth, am \in AmmoLevels, rh \in RivalHealth, ra \in AmmoLevels :
          agents = [i \in Ids |->
                      IF i = 1 THEN NewAgent(1, 0, 0, h, am, EmptyInventory)
                      ELSE NewAgent(i, 2, 1, rh, ra, EmptyInventory)]
    /\ resources = AmmoResources
    /\ ticks = 0
    /\ last = Call("init", 0, None, NoSnap, <<>>, NoPacket)
    /\ query = NoQuery

\* Game._fixed_update: the turn of one living agent
AmmoNext == \E i \in Ids : RunUpdate(i)

AmmoSpec == AmmoInit /\ [][AmmoNext]_vars

(***************************************************************************)
(* GameServer                                                              *)
(*                                                                         *)
(* The server's agents, world resources and ticks are the variables        *)
(* agents, resources and ticks (mode "server"); the rest of the GameServer *)
(* object, the connections and the position of game_loop are in query.     *)
(* self.clients is a dict: its entries are kept in insertion order and a   *)
(* deleted entry leaves a hole (conn 0), as in the dict's entry table.     *)
(* A connection is "new" (not made yet), "open", "closing" (the socket is  *)
(* closed, the handler has not cleaned up yet), "closed" or "rejected".    *)
(* game_loop runs between its awaits in one step; pc names the await it is *)
(* at: "top", "sleep", "send" (a state update), "broadcast" (a game-over   *)
(* message), or that it ended: "stopped", "crashed".                       *)
(***************************************************************************)

max_agents == 2
drop_cooldown_ticks == 25
min_world_resources == 6

\* the connections the model follows, and the messages it lets them send
MaxConns == 3
MaxMessages == 2
MaxServerTicks == 2

Conns == 1..MaxConns

\* generator.get_balanced_spawns(grid, count=2): two walkable points far apart
spawn_points == << <<0, 0>>, <<2, 1>> >>

NoClient == [id |-> NoId, conn |-> 0]

\* the entries of self.clients, in order
LiveClients(clients) == SelectSeq(clients, LAMBDA e : e.conn # 0)

\* agent_id in self.clients
InClients(clients, agent_id) ==
    \E k \in 1..Len(clients) : clients[k].conn # 0 /\ clients[k].id = agent_id

\* del self.clients[agent_id]
DelClient(clients, agent_id) ==
    [k \in 1..Len(clients) |->
        IF clients[k].conn # 0 /\ clients[k].id = agent_id THEN NoClient ELSE clients[k]]

\* the agent id handler assigns: the first one not in self.clients
RECURSIVE FreeId(_, _)
FreeId(clients, agent_id) ==
    IF InClients(clients, agent_id) THEN FreeId(clients, agent_id + 1) ELSE agent_id

\* the world of the server
ServerWorld == [kind |-> "World", grid |-> Grid, occ |-> {}]

\* Faulty variant of ServerMove: a tile held by another living agent is not
\* refused.
ServerMove_IgnoreOccupied(ags, agent_id, target_pos) ==
    IF /\ target_pos # NoPos
       /\ chebyshev(target_pos[1], target_pos[2], ags[agent_id].x, ags[agent_id].y) <= 1
       /\ is_walkable(ServerWorld, target_pos[1], target_pos[2])
    THEN [ags EXCEPT ![agent_id].x = target_pos[1], ![agent_id].y = target_pos[2]]
    ELSE ags

\* process_action, 1: movement validation
ServerMove(ags, agent_id, target_pos) ==
    LET agent == ags[agent_id]
        tx == target_pos[1]
        ty == target_pos[2]
        occupied == \E other_id \in Ids :
                       /\ ags[other_id].present
                       /\ other_id # agent_id
                       /\ ags[other_id].x = tx /\ ags[other_id].y = ty
                       /\ ags[other_id].health > 0
    IN  IF /\ target_pos # NoPos
           /\ chebyshev(tx, ty, agent.x, agent.y) <= 1
           /\ is_walkable(ServerWorld, tx, ty)
           /\ ~occupied
        THEN [ags EXCEPT ![agent_id].x = tx, ![agent_id].y = ty]
        ELSE ags

\* process_action, 2: scavenge validation
ServerScavenge(ags, res, agent_id) ==
    LET agent == ags[agent_id]
        k == ResourceUnder(agent, res)
    IN  IF k = 0 THEN [agents |-> ags, resources |-> res]
        ELSE LET r == res[k]
                 credited == [agent EXCEPT !.inventory[r.type] = @ + r.amount]
                 got == IF r.type = "food"
                        THEN [credited EXCEPT !.health = Min2(100, @ + 5)]
                        ELSE IF r.type = "ammo"
                        THEN [credited EXCEPT !.ammo = @ + 10]
                        ELSE credited
             IN  [agents |-> [ags EXCEPT ![agent_id] = got],
                  resources |-> RemoveAt(res, k)]

\* Faulty variant of ServerAttack: the distance to the target is not checked.
ServerAttack_AnyRange(ags, agent_id, target_id) ==
    IF /\ target_id \in Ids
       /\ ags[target_id].present
       /\ ags[target_id].health > 0
       /\ ags[agent_id].ammo > 0
    THEN LET damage == 10 + ags[agent_id].upgrades.weapon_damage * 5
             shot == [ags EXCEPT ![agent_id].ammo = @ - 1]
         IN  [shot EXCEPT ![target_id].health = @ - damage]
    ELSE ags

\* process_action, 3: combat validation
ServerAttack(ags, agent_id, target_id) ==
    IF /\ target_id \in Ids
       /\ ags[target_id].present
       /\ ags[target_id].health > 0
       /\ chebyshev(ags[agent_id].x, ags[agent_id].y,
                    ags[target_id].x, ags[target_id].y) <= 5
       /\ ags[agent_id].ammo > 0
    THEN LET damage == 10 + ags[agent_id].upgrades.weapon_damage * 5
             shot == [ags EXCEPT ![agent_id].ammo = @ - 1]
         IN  [shot EXCEPT ![target_id].health = @ - damage]
    ELSE ags

\* process_action, 4: EAT
ServerEat(ags, agent_id) ==
    IF ags[agent_id].inventory.food >= 1
    THEN [ags EXCEPT ![agent_id].inventory.food = @ - 1,
                     ![agent_id].health = Min2(ags[agent_id].max_health, @ + 20)]
    ELSE ags

\* Faulty variant of process_action: the scavenged resource stays in the world.
process_action_KeepResource(ags, res, agent_id, data) ==
    IF ~ags[agent_id].present \/ ags[agent_id].health <= 0
    THEN [agents |-> ags, resources |-> res]
    ELSE LET moved == ServerMove(ags, agent_id, data.position)
             scavenged == IF data.action = "SCAVENGE"
                          THEN ServerScavenge(moved, res, agent_id)
                          ELSE [agents |-> moved, resources |-> res]
             attacked == IF data.action = "ATTACK"
                         THEN ServerAttack(scavenged.agents, agent_id, data.target_id)
                         ELSE scavenged.agents
             eaten == IF data.action = "EAT" THEN ServerEat(attacked, agent_id) ELSE attacked
         IN  [agents |-> eaten, resources |-> res]

\* GameServer.process_action(agent_id, data): the agents and the resources
\* after it.  An UPGRADE changes nothing: the EconomySystem has no
\* get_upgrade_cost, and the error is caught.
process_action(ags, res, agent_id, data) ==
    IF ~ags[agent_id].present \/ ags[agent_id].health <= 0
    THEN [agents |-> ags, resources |-> res]
    ELSE LET moved == ServerMove(ags, agent_id, data.position)
             scavenged == IF data.action = "SCAVENGE"
                          THEN ServerScavenge(moved, res, agent_id)
                          ELSE [agents |-> moved, resources |-> res]
             attacked == IF data.action = "ATTACK"
                         THEN ServerAttack(scavenged.agents, agent_id, data.target_id)
                         ELSE scavenged.agents
             eaten == IF data.action = "EAT" THEN ServerEat(attacked, agent_id) ELSE attacked
         IN  [agents |-> eaten, resources |-> scavenged.resources]

\* the drops _maybe_spawn_drops can add: none before the cooldown has passed
\* or when the world has resources enough, else up to spawn_count resources
\* on walkable cells that hold neither a living agent nor a resource
DropKinds == {[type |-> "food", amount |-> 1], [type |-> "ammo", amount |-> 5],
              [type |-> "ammo", amount |-> 10], [type |-> "scrap", amount |-> 2],
              [type |-> "scrap", amount |-> 5]}

RECURSIVE DropsOn(_, _)
DropsOn(cells, res) ==
    IF cells = {} THEN {res}
    ELSE LET c == CHOOSE c \in cells : TRUE
         IN  UNION {DropsOn(cells \ {c},
                            Append(res, [x |-> c[1], y |-> c[2], type |-> kd.type,
                                         amount |-> kd.amount])) : kd \in DropKinds}

maybe_spawn_drops(sv, ags, res, now) ==
    LET total_resources == Len(res)
        food_count == Cardinality({k \in 1..Len(res) : res[k].type = "food"})
        short == IF total_resources = 0 THEN 12
                 ELSE IF total_resources < min_world_resources
                 THEN min_world_resources - total_resources ELSE 0
        spawn_count == IF food_count = 0 THEN Max2(short, 2) ELSE short
        alive == {i \in Ids : ags[i].present /\ ags[i].health > 0}
        free == {c \in Cells : /\ is_walkable(ServerWorld, c[1], c[2])
                               /\ \A i \in alive : <<ags[i].x, ags[i].y>> # c
                               /\ \A k \in 1..Len(res) : <<res[k].x, res[k].y>> # c}
    IN  IF \/ ~sv.game_started
           \/ now - sv.last_drop_tick < drop_cooldown_ticks
           \/ spawn_count <= 0
           \/ alive = {}
        THEN {res}
        ELSE UNION {DropsOn(cells, res) :
                       cells \in {S \in SUBSET free : Cardinality(S) <= spawn_count}}

\* the clients of game_loop's copy that get a state update: the first whose
\* agent exists and lives, and those behind it
RECURSIVE SkipUnsendable(_, _)
SkipUnsendable(items, ags) ==
    IF items = <<>> THEN <<>>
    ELSE IF ~ags[items[1].id].present \/ ags[items[1].id].health <= 0
    THEN SkipUnsendable(Tail(items), ags)
    ELSE items

\* the cleanup of the clients whose send failed: a missing entry is a KeyError
RECURSIVE CleanupDisconnected(_, _)
CleanupDisconnected(sv, ids) ==
    IF ids = <<>> THEN sv
    ELSE IF ~InClients(sv.clients, ids[1]) THEN [sv EXCEPT !.pc = "crashed"]
    ELSE CleanupDisconnected([sv EXCEPT !.clients = DelClient(@, ids[1]),
                                        !.connected_agents = @ - 1], Tail(ids))

\* the first entry of self.clients behind position pos, 0 if there is none
NextClient(clients, pos) ==
    LET behind == {k \in (pos + 1)..Len(clients) : clients[k].conn # 0}
    IN  IF behind = {} THEN 0 ELSE CHOOSE k \in behind : \A j \in behind : k <= j

\* the game-over message sent to the client at position pos: a closed
\* connection raises out of game_loop
SendGameOver(sv, ags, pos) ==
    IF pos = 0 THEN [sv EXCEPT !.pc = "stopped"]
    ELSE IF sv.conns[sv.clients[pos].conn].status # "open" THEN [sv EXCEPT !.pc = "crashed"]
    ELSE [sv EXCEPT !.pc = "broadcast", !.notify_pos = pos,
                    !.notify_conn = sv.clients[pos].conn,
                    !.game_over_msgs =
                        Append(@, [conn |-> sv.clients[pos].conn, winner |-> sv.winner,
                                   alive |-> {i \in Ids : ags[i].present /\ ags[i].health > 0}])]

\* Faulty variant of LoopEnd: the game is over as soon as at most two agents
\* are alive.
LoopEnd_TwoAlive(sv0, ags) ==
    LET sv == CleanupDisconnected([sv0 EXCEPT !.disconnected_agents = <<>>],
                                  sv0.disconnected_agents)
        alive == {i \in Ids : ags[i].present /\ ags[i].health > 0}
    IN  IF sv.pc = "crashed" THEN sv
        ELSE IF sv.game_started /\ Cardinality(alive) <= 2
        THEN SendGameOver([sv EXCEPT !.game_over = TRUE,
                                     !.alive = alive,
                                     !.winner = IF alive = {} THEN @
                                                ELSE CHOOSE i \in alive : TRUE,
                                     !.notify_size = Len(LiveClients(sv.clients))],
                          ags, NextClient(sv.clients, 0))
        ELSE [sv EXCEPT !.pc = "top"]

\* the end of a tick of game_loop, behind the state updates: cleanup, the
\* game-over check and the start of the broadcast
LoopEnd(sv0, ags) ==
    LET sv == CleanupDisconnected([sv0 EXCEPT !.disconnected_agents = <<>>],
                                  sv0.disconnected_agents)
        alive == {i \in Ids : ags[i].present /\ ags[i].health > 0}
    IN  IF sv.pc = "crashed" THEN sv
        ELSE IF sv.game_started /\ Cardinality(alive) <= 1
        THEN SendGameOver([sv EXCEPT !.game_over = TRUE,
                                     !.alive = alive,
                                     !.winner = IF alive = {} THEN @
                                                ELSE CHOOSE i \in alive : TRUE,
                                     !.notify_size = Len(LiveClients(sv.clients))],
                          ags, NextClient(sv.clients, 0))
        ELSE [sv EXCEPT !.pc = "top"]

\* the state updates of a tick from the client items left: the next await,
\* or the end of the tick
SendStates(sv, ags, items) ==
    LET left == SkipUnsendable(items, ags)
    IN  IF left = <<>> THEN LoopEnd([sv EXCEPT !.client_items = <<>>], ags)
        ELSE [sv EXCEPT !.pc = "send", !.client_items = left]

\* GameServer.__init__
NewServer ==
    [fn |-> "server",
     clients |-> <<>>,
     conns |-> [c \in Conns |-> [status |-> "new", agent_id |-> NoId]],
     connected_agents |-> 0,
     game_started |-> FALSE, game_over |-> FALSE, winner |-> NoId,
     last_drop_tick |-> 0,
     pc |-> "top",
     client_items |-> <<>>, disconnected_agents |-> <<>>,
     alive |-> {},       \* game_loop's list of the living agents, by id
     notify_pos |-> 0, notify_size |-> 0, notify_conn |-> 0,
     game_over_msgs |-> <<>>,
     messages |-> 0]

\* a server on which both clients connected, game_loop went to sleep and one
\* or both agents fired nine times at the other from their spawns
InGame(h1, am1, h2, am2) ==
    [NewServer EXCEPT
        !.clients = <<[id |-> 1, conn |-> 1], [id |-> 2, conn |-> 2]>>,
        !.conns = [c \in Conns |-> IF c <= 2 THEN [status |-> "open", agent_id |-> c]
                                   ELSE [status |-> "new", agent_id |-> NoId]],
        !.connected_agents = 2,
        !.game_started = TRUE,
        !.pc = "sleep"]

ServerStarts ==
    {<<100, 20, 100, 20>>, <<100, 11, 10, 20>>, <<10, 20, 100, 11>>, <<10, 11, 10, 11>>}

ServerInit ==
    /\ mode = "server"
    /\ resources = InitResources
    /\ ticks = 0
    /\ last = Call("init", 0, None, NoSnap, <<>>, NoPacket)
    /\ \/ /\ agents = [i \in Ids |-> Absent(i)]
          /\ query = NewServer
       \/ \E st \in ServerStarts :
             /\ agents = [i \in Ids |->
                            NewAgent(i, spawn_points[i][1], spawn_points[i][2],
                                     st[2 * i - 1], st[2 * i], EmptyInventory)]
             /\ query = InGame(st[1], st[2], st[3], st[4])

Running == query.fn = "server" /\ query.pc \notin {"stopped", "crashed"}

\* handler(websocket) up to its first await: the new connection gets an agent
\* id and an agent, or is rejected when the server is full
Connect(c) ==
    /\ Running
    /\ query.conns[c].status = "new"
    /\ \A d \in 1..(c - 1) : query.conns[d].status # "new"
    /\ LET agent_id == FreeId(query.clients, 1)
       IN  IF agent_id > max_agents
           THEN /\ query' = [query EXCEPT !.conns[c].status = "rejected"]
                /\ UNCHANGED agents
           ELSE /\ agents' = [agents EXCEPT ![agent_id] =
                                 NewAgent(agent_id, spawn_points[agent_id][1],
                                          spawn_points[agent_id][2], 100, 20, EmptyInventory)]
                /\ query' = [query EXCEPT
                                !.conns[c] = [status |-> "open", agent_id |-> agent_id],
                                !.clients = Append(@, [id |-> agent_id, conn |-> c]),
                                !.connected_agents = @ + 1]
    /\ last' = Call("connect", c, None, NoSnap, <<>>, NoPacket)
    /\ UNCHANGED <<mode, resources, ticks>>

\* the action messages a client can send: a move to any cell or none, alone
\* or with a SCAVENGE, and an EAT, an UPGRADE or an ATTACK on any id or none
ActionMessages ==
    {[NoPacket EXCEPT !.type = "action", !.action = act, !.position = pos] :
        act \in {None, "SCAVENGE"}, pos \in {NoPos} \cup Cells}
    \cup
    {[NoPacket EXCEPT !.type = "action", !.action = act] : act \in {"EAT", "UPGRADE"}}
    \cup
    {[NoPacket EXCEPT !.type = "action", !.action = "ATTACK", !.target_id = t] :
        t \in {NoId} \cup Ids}

\* handler: `async for message in websocket`, an action message arrives
Receive(c, data) ==
    /\ Running
    /\ query.conns[c].status = "open"
    /\ query.messages < MaxMessages
    /\ LET r == process_action(agents, resources, query.conns[c].agent_id, data)
       IN  /\ agents' = r.agents
           /\ resources' = r.resources
    /\ query' = [query EXCEPT !.messages = @ + 1]
    /\ last' = Call("receive", c, None, NoSnap, <<>>, NoPacket)
    /\ UNCHANGED <<mode, ticks>>

\* the socket of a connection closes
Close(c) ==
    /\ Running
    /\ query.conns[c].status = "open"
    /\ query' = [query EXCEPT !.conns[c].status = "closing"]
    /\ last' = Call("close", c, None, NoSnap, <<>>, NoPacket)
    /\ UNCHANGED <<mode, agents, resources, ticks>>

\* handler: the finally block, after the connection closed
Cleanup(c) ==
    /\ query.fn = "server"
    /\ query.conns[c].status = "closing"
    /\ LET agent_id == query.conns[c].agent_id
       IN  /\ agents' = [agents EXCEPT ![agent_id] = Absent(agent_id)]
           /\ query' = [query EXCEPT !.conns[c].status = "closed",
                                     !.clients = DelClient(@, agent_id),
                                     !.connected_agents = @ - 1]
    /\ last' = Call("cleanup", c, None, NoSnap, <<>>, NoPacket)
    /\ UNCHANGED <<mode, resources, ticks>>

\* game_loop from the top of the loop to the sleep of the tick
LoopTop ==
    /\ query.fn = "server"
    /\ query.pc = "top"
    /\ ~query.game_over
    /\ query.connected_agents >= 1
    /\ query' = [query EXCEPT !.game_started = @ \/ query.connected_agents >= 2,
                              !.pc = "sleep"]
    /\ last' = Call("top", 0, None, NoSnap, <<>>, NoPacket)
    /\ UNCHANGED <<mode, agents, resources, ticks>>

\* game_loop from the end of the sleep to the first state update it sends
LoopTick ==
    /\ query.fn = "server"
    /\ query.pc = "sleep"
    /\ ticks < MaxServerTicks
    /\ ticks' = ticks + 1
    /\ \E res \in maybe_spawn_drops(query, agents, resources, ticks + 1) :
          /\ resources' = res
          /\ query' = SendStates([query EXCEPT
                                     !.last_drop_tick = IF res # resources THEN ticks + 1
                                                        ELSE @],
                                 agents, LiveClients(query.clients))
    /\ last' = Call("tick", 0, None, NoSnap, <<>>, NoPacket)
    /\ UNCHANGED <<mode, agents>>

\* game_loop from the end of a state update's send to the next await
SendDone ==
    /\ query.fn = "server"
    /\ query.pc = "send"
    /\ LET item == query.client_items[1]
           failed == query.conns[item.conn].status # "open"
       IN  query' = SendStates([query EXCEPT
                                   !.disconnected_agents =
                                       IF failed THEN Append(@, item.id) ELSE @],
                               agents, Tail(query.client_items))
    /\ last' = Call("send", query.client_items[1].conn, None, NoSnap, <<>>, NoPacket)
    /\ UNCHANGED <<mode, agents, resources, ticks>>

\* game_loop from the end of a game-over message's send to the next one: the
\* send raises when its connection closed meanwhile, the dict iterator raises
\* when the dict changed its size
BroadcastDone ==
    /\ query.fn = "server"
    /\ query.pc = "broadcast"
    /\ query' = IF \/ query.conns[query.notify_conn].status # "open"
                   \/ Len(LiveClients(query.clients)) # query.notify_size
                THEN [query EXCEPT !.pc = "crashed"]
                ELSE SendGameOver(query, agents, NextClient(query.clients, query.notify_pos))
    /\ last' = Call("broadcast", 0, None, NoSnap, <<>>, NoPacket)
    /\ UNCHANGED <<mode, agents, resources, ticks>>

ServerNext ==
    \/ \E c \in Conns : Connect(c)
    \/ \E c \in Conns, data \in ActionMessages : Receive(c, data)
    \/ \E c \in Conns : Close(c)
    \/ \E c \in Conns : Cleanup(c)
    \/ LoopTop
    \/ LoopTick
    \/ SendDone
    \/ BroadcastDone

ServerSpec == ServerInit /\ [][ServerNext]_vars

(***************************************************************************)
(* Calls of AStar.find_path on maps of the grid's size, as the tests make  *)
(* them on their own maps                                                  *)
(***************************************************************************)

\* terrains of the maps: cost 1, cost 3 and walls
PathTerrains == {"floor", "mud", "wall"}

PathGrids == [1..Height -> [1..Width -> PathTerrains]]

\* the navigation maps: an engine World, or a client's ProxyWorld whose own
\* agent stands on the start cell
PathMap(kind, grid, start) ==
    [kind |-> kind, grid |-> grid, occ |-> IF kind = "Proxy" THEN {start} ELSE {}]

PathInit ==
    /\ mode = "mock"
    /\ agents = [i \in Ids |-> Absent(i)]
    /\ resources = <<>>
    /\ ticks = 0
    /\ last = Call("init", 0, None, NoSnap, <<>>, NoPacket)
    /\ \E kind \in {"World", "Proxy"}, grid \in PathGrids, start \in Cells, goal \in Cells :
          query = [fn |-> "find_path", start |-> start, goal |-> goal,
                   w |-> PathMap(kind, grid, start), done |-> FALSE, path |-> <<>>]

\* path = AStar().find_path(start, goal, nav_map)
FindPath ==
    /\ query.fn = "find_path"
    /\ ~query.done
    /\ query' = [query EXCEPT !.done = TRUE,
                              !.path = find_path(query.start, query.goal, query.w)]
    /\ UNCHANGED <<mode, agents, resources, ticks, last>>

PathNext == FindPath

PathSpec == PathInit /\ [][PathNext]_vars

(***************************************************************************)
(* Calls of Minimax.get_best_move and Minimax._get_possible_moves on one   *)
(* Minimax object, as the tests make them                                  *)
(***************************************************************************)

\* the combat states searched: the positions and healths of test_determinism,
\* each side with or without ammo, and a state in which one shot kills the
\* opponent
CombatStates ==
    {[agent |-> [x |-> 0, y |-> 0, health |-> 80, ammo |-> am],
      opponent |-> [x |-> 1, y |-> 1, health |-> 70, ammo |-> oam]] :
        am \in {0, 2}, oam \in {0, 2}}
    \cup {[agent |-> [x |-> 0, y |-> 0, health |-> 80, ammo |-> 2],
           opponent |-> [x |-> 1, y |-> 1, health |-> 10, ammo |-> 0]]}

SearchDepths == {1, 2}

\* aggression in tenths: the defensive and the aggressive Minimax of the tests
Aggressions == {2, 8}

\* what the clock can measure for a search, in ms
ElapsedTimes == {1, 2}

NoCombatState ==
    [agent |-> [x |-> 0, y |-> 0, health |-> 0, ammo |-> 0],
     opponent |-> [x |-> 0, y |-> 0, health |-> 0, ammo |-> 0]]

\* a call of a method of the Minimax object with its result
SearchCall(op, st, depth, is_maximizing, move, score, moves) ==
    [op |-> op, state |-> st, depth |-> depth, is_maximizing |-> is_maximizing,
     move |-> move, score |-> score, moves |-> moves]

NoCall == SearchCall(None, NoCombatState, 0, TRUE, None, 0, <<>>)

MinimaxInit ==
    /\ mode = "mock"
    /\ agents = [i \in Ids |-> Absent(i)]
    /\ resources = <<>>
    /\ ticks = 0
    /\ last = Call("init", 0, None, NoSnap, <<>>, NoPacket)
    /\ \E aggression \in Aggressions :
          query = [fn |-> "minimax", mm |-> NewMinimax(aggression),
                   first |-> NoCall, others |-> FALSE, call |-> NoCall,
                   expanded |-> {}, state |-> NoCombatState]

\* move, score = minimax.get_best_move(state, depth); `state` is the object
\* passed, as it is after the call, `expanded` the states searched; `first` keeps the first
\* search made on the object, `call` the latest call, `others` tells that a
\* search with other arguments than the first was made
GetBestMove(st, depth, elapsed) ==
    /\ query.fn = "minimax"
    /\ LET r == get_best_move_on(query.mm, st, depth, elapsed)
           c == SearchCall("get_best_move", st, depth, TRUE, r.move, r.score, <<>>)
       IN  query' = [query EXCEPT !.mm = r.mm,
                                  !.first = IF @.op = None THEN c ELSE @,
                                  !.others = \/ @
                                             \/ /\ query.first.op # None
                                                /\ <<st, depth>> # <<query.first.state,
                                                                     query.first.depth>>,
                                  !.call = c,
                                  !.expanded = r.expanded,
                                  !.state = r.state]
    /\ UNCHANGED <<mode, agents, resources, ticks, last>>

\* moves = minimax._get_possible_moves(state, is_maximizing)
GetPossibleMoves(st, is_maximizing) ==
    /\ query.fn = "minimax"
    /\ query' = [query EXCEPT !.call =
                    SearchCall("get_possible_moves", st, 0, is_maximizing, None, 0,
                               get_possible_moves(st, is_maximizing)),
                                  !.expanded = {},
                                  !.state = state_after_moves(st, is_maximizing)]
    /\ UNCHANGED <<mode, agents, resources, ticks, last>>

MinimaxNext ==
    \/ \E st \in CombatStates, depth \in SearchDepths, elapsed \in ElapsedTimes :
          GetBestMove(st, depth, elapsed)
    \/ \E st \in CombatStates, is_maximizing \in BOOLEAN :
          GetPossibleMoves(st, is_maximizing)

MinimaxSpec == MinimaxInit /\ [][MinimaxNext]_vars

(***************************************************************************)
(* Calls of FuzzyLogic.evaluate_confidence, as the tests make them         *)
(***************************************************************************)

\* health inputs: every fifth value from -10 to 105, one far beyond the
\* range, and the two infinities
HealthInputs == {5 * k : k \in -2..21} \cup {200, FuzzyInf, -FuzzyInf}

\* ammo inputs: -2 to 22, one far beyond the range, and the two infinities
AmmoInputs == (-2..22) \cup {50, FuzzyInf, -FuzzyInf}

FuzzyInit ==
    /\ mode = "mock"
    /\ agents = [i \in Ids |-> Absent(i)]
    /\ resources = <<>>
    /\ ticks = 0
    /\ last = Call("init", 0, None, NoSnap, <<>>, NoPacket)
    /\ \E health_val \in HealthInputs, ammo_val \in AmmoInputs :
          query = [fn |-> "evaluate_confidence", health_val |-> health_val,
                   ammo_val |-> ammo_val, done |-> FALSE,
                   strengths |-> <<0, 0, 0>>, confidence |-> 0]

\* confidence = self.fuzzy.evaluate_confidence(h, a)
EvaluateConfidence ==
    /\ query.fn = "evaluate_confidence"
    /\ ~query.done
    /\ query' = [query EXCEPT
                    !.done = TRUE,
                    !.strengths = rule_strengths(query.health_val, query.ammo_val),
                    !.confidence = evaluate_confidence(query.health_val, query.ammo_val)]
    /\ UNCHANGED <<mode, agents, resources, ticks, last>>

FuzzyNext == EvaluateConfidence

FuzzySpec == FuzzyInit /\ [][FuzzyNext]_vars

(***************************************************************************)
(* Calls of VisibilitySystem.update_belief on one VisibilitySystem, as the *)
(* tests make them                                                         *)
(***************************************************************************)

Observers == {1}
Targets == {2}

\* where the target is: close, at a third of the range, at the edge of the
\* range (visibility 0.009) and beyond it
TargetPositions == {<<1, 1>>, <<5, 0>>, <<14, 5>>, <<14, 14>>}

\* the observer's health and ammo in the three tests
Contexts == {<<100, 20>>, <<10, 0>>, <<50, 5>>}

\* the time of the tests
CurrentTimes == {100}

NoBeliefCall ==
    [observer_id |-> 0, target_id |-> 0, vis_score |-> 0,
     before |-> NoEstimate, estimate |-> NoEstimate]

VisibilityInit ==
    /\ mode = "mock"
    /\ agents = [i \in Ids |-> Absent(i)]
    /\ resources = <<>>
    /\ ticks = 0
    /\ last = Call("init", 0, None, NoSnap, <<>>, NoPacket)
    /\ query = [fn |-> "update_belief",
                beliefs |-> [o \in Observers |-> [t \in Targets |-> NoEstimate]],
                call |-> NoBeliefCall]

\* estimate = self.vis_system.update_belief(observer_id, (0, 0), target_id,
\* target_pos, current_time, health_ctx, ammo_ctx)
UpdateBelief(observer_id, target_id, target_pos, current_time, ctx) ==
    /\ query.fn = "update_belief"
    /\ \E r \in update_belief(query.beliefs, observer_id, <<0, 0>>, target_id, target_pos,
                              current_time, ctx[1], ctx[2]) :
          query' = [query EXCEPT
                       !.beliefs = r.beliefs,
                       !.call = [observer_id |-> observer_id, target_id |-> target_id,
                                 vis_score |-> calculate_visibility_confidence(<<0, 0>>,
                                                                              target_pos),
                                 before |-> query.beliefs[observer_id][target_id],
                                 estimate |-> r.estimate]]
    /\ UNCHANGED <<mode, agents, resources, ticks, last>>

VisibilityNext ==
    \E observer_id \in Observers, target_id \in Targets, target_pos \in TargetPositions,
       current_time \in CurrentTimes, ctx \in Contexts :
        UpdateBelief(observer_id, target_id, target_pos, current_time, ctx)

VisibilitySpec == VisibilityInit /\ [][VisibilityNext]_vars

(***************************************************************************)
(* Properties                                                              *)
(***************************************************************************)

\* the step is an update call (a tick) on agent i
Ticked(i) == last'.op \in {"update", "net_update"} /\ last'.id = i

\* hooks of a transition from state old to state new
TransitionCalls(old, new) == << <<"exit", old>>, <<"enter", new>> >>

\* some other agent of the list is alive
RivalAlive(i) == \E j \in Ids \ {i} : agents[j].present /\ agents[j].health > 0

\* C1: after update_from_server(snapshot) the agent's x, y, health, ammo and
\* inventory are exactly those of snapshot["self"], whatever the local state
\* and the local FSM ticks before it.
C1_SnapshotWins ==
    last.op = "snapshot" =>
        /\ agents[1].x = last.snap.x
        /\ agents[1].y = last.snap.y
        /\ agents[1].health = last.snap.health
        /\ agents[1].ammo = last.snap.ammo
        /\ agents[1].inventory = last.snap.inventory

\* a snapshot applied after local FSM ticks, the agent being in FIGHT
C1_Witness ==
    /\ last.op = "snapshot"
    /\ ticks >= 2
    /\ agents[1].state = "FIGHT"
    /\ last.snap.health = 20
    /\ last.snap.inventory.food = 1

\* C2: NetworkedAgent.update leaves x, y, ammo, health and inventory as they
\* were when it was called, whichever FSM state ran.
C2_UpdateKeepsAuthoritativeFields ==
    [][last'.op = "net_update" =>
          /\ agents'[1].x = agents[1].x
          /\ agents'[1].y = agents[1].y
          /\ agents'[1].ammo = agents[1].ammo
          /\ agents'[1].health = agents[1].health
          /\ agents'[1].inventory = agents[1].inventory]_vars

\* an update in which FightState fired a round (the packet asks for ATTACK)
C2_Witness ==
    /\ last.op = "net_update"
    /\ last.calls = << <<"execute", "FIGHT">> >>
    /\ last.packet.action = "ATTACK"

\* C3: a tick executes the current state once and makes at most one
\* transition; on a transition the old state's exit runs, then the new state's
\* enter, and nothing else: the new state's execute waits for a later tick.
C3_OneTransitionPerTick ==
    [][\A i \in Ids : Ticked(i) =>
          LET c == last'.calls
              old == agents[i].state
              new == agents'[i].state
          IN  /\ c # <<>>
              /\ c[1] = <<"execute", old>>
              /\ \/ Len(c) = 1 /\ new = old
                 \/ c = << <<"execute", old>> >> \o TransitionCalls(old, new)]_vars

\* a tick that made a transition
C3_Witness ==
    /\ last.op = "update"
    /\ last.calls = << <<"execute", "SCAVENGE">>, <<"exit", "SCAVENGE">>, <<"enter", "FIGHT">> >>

\* C4: after a tick that made a transition the agent's path is empty and the
\* cursor is 0, the exit hook of the state left having cleared them.
C4_TransitionClearsPath ==
    [][\A i \in Ids :
          (Ticked(i) /\ Len(last'.calls) = 3)
          => agents'[i].path = <<>> /\ agents'[i].path_index = 0]_vars

\* C5: set_state with an unknown name changes nothing: no hook runs, the agent
\* (its current state included) and the world are as before.
C5_InvalidStateRejected ==
    [][(last'.op = "set_state" /\ last'.name \notin StateNames) =>
          /\ agents' = agents
          /\ resources' = resources
          /\ last'.calls = <<>>]_vars

\* an unknown name requested of an agent that has left its initial state
C5_Witness ==
    /\ last.op = "set_state"
    /\ last.name = "INVALID_STATE"
    /\ agents[last.id].state = "FLEE"

\* C6: a new agent is in SCAVENGE, and the current state is always one of the
\* five states.
C6_AlwaysInAState ==
    \A i \in Ids : Real(i) =>
        /\ agents[i].state \in StateNames
        /\ last.op = "init" => agents[i].state = "SCAVENGE"

\* an agent that has moved through the states to EAT
C6_Witness ==
    /\ ticks >= 2
    /\ \E i \in Ids : Real(i) /\ agents[i].state = "EAT"

\* C7: a tick in SCAVENGE with health < 30 and food held ends in EAT, whatever
\* the scrap and the rivals.
C7_LowHealthWithFoodEats ==
    [][\A i \in Ids :
          (/\ Ticked(i)
           /\ agents[i].state = "SCAVENGE"
           /\ agents[i].health < 30
           /\ agents[i].inventory.food >= 1)
          => agents'[i].state = "EAT"]_vars

\* EAT entered from SCAVENGE with scrap for an upgrade and a living rival
C7_Witness ==
    /\ last.op = "update"
    /\ last.calls = << <<"execute", "SCAVENGE">>, <<"exit", "SCAVENGE">>, <<"enter", "EAT">> >>
    /\ agents[last.id].inventory.scrap >= 15
    /\ RivalAlive(last.id)

\* C8: a BaseAgent.update in SCAVENGE with health < 30 ends in EAT, food held
\* or not.
C8_LowHealthEatsWithoutFood ==
    [][\A i \in Ids :
          (/\ last'.op = "update" /\ last'.id = i
           /\ agents[i].state = "SCAVENGE"
           /\ agents[i].health < 30)
          => agents'[i].state = "EAT"]_vars

\* C9: a tick in FIGHT with health <= 20 ends in FLEE, and in it the agent
\* neither attacks (no round spent, no rival hurt, no ATTACK asked) nor moves
\* (its position is kept, no position asked).
C9_LowHealthFightFlees ==
    [][\A i \in Ids :
          (/\ Ticked(i)
           /\ agents[i].state = "FIGHT"
           /\ agents[i].health <= 20)
          => /\ agents'[i].state = "FLEE"
             /\ agents'[i].ammo = agents[i].ammo
             /\ agents'[i].x = agents[i].x /\ agents'[i].y = agents[i].y
             /\ \A j \in Ids \ {i} : agents'[j].health = agents[j].health
             /\ last'.packet.action # "ATTACK"
             /\ last'.packet.position = NoPos]_vars

\* FLEE entered from FIGHT by an agent with ammo and a living rival
C9_Witness ==
    /\ last.op \in {"update", "net_update"}
    /\ last.calls = << <<"execute", "FIGHT">>, <<"exit", "FIGHT">>, <<"enter", "FLEE">> >>
    /\ agents[last.id].ammo > 0
    /\ RivalAlive(last.id)

C11_UpgradeReturnsToScavenge ==
    [][\A i \in Ids :
          (Ticked(i) /\ agents[i].state = "UPGRADE")
          => /\ agents'[i].state = "SCAVENGE"
             /\ agents[i].inventory.owned \subseteq agents'[i].inventory.owned
             /\ Cardinality(agents'[i].inventory.owned \ agents[i].inventory.owned) <= 1]_vars

\* an UPGRADE tick that bought one upgrade and left scrap for another
C11_Witness ==
    /\ last.op = "update"
    /\ last.calls = << <<"execute", "UPGRADE">>, <<"exit", "UPGRADE">>, <<"enter", "SCAVENGE">> >>
    /\ Cardinality(agents[last.id].inventory.owned) = 1
    /\ agents[last.id].inventory.scrap >= 10

\* no unowned upgrade of either type that the agent's scrap pays for
NoAffordable(a) ==
    \A t \in {"max_health", "weapon_damage"} : get_affordable_upgrade(a, t) = NoUpgrade

\* the world states one more update of agent i may leave, from world state ws
Tick(ws, i) ==
    {[mode |-> ws.mode, agents |-> r.agents, resources |-> r.resources] :
        r \in base_update(ws, i)}

\* from ws, agent i's next update goes straight back to UPGRADE and the one
\* after it returns to ws exactly: the two ticks repeat for ever, and
\* SCAVENGE's planning and collection logic is never executed
UpgradeCycle(ws, i) ==
    \A w1 \in Tick(ws, i) :
        /\ w1.agents[i].state = "UPGRADE"
        /\ \A w2 \in Tick(w1, i) : w2 = ws

\* C12: no livelock around upgrading: after an UPGRADE tick that bought
\* nothing while scrap >= 15, the agent is not left alternating
\* SCAVENGE -> UPGRADE -> SCAVENGE without ever reaching SCAVENGE's planning
\* and collection logic.
C12_NoUpgradeLivelock ==
    [][\A i \in Ids :
          (/\ Ticked(i)
           /\ agents[i].state = "UPGRADE"
           /\ agents'[i].inventory = agents[i].inventory
           /\ agents'[i].inventory.scrap >= 15
           /\ NoAffordable(agents'[i]))
          => ~UpgradeCycle(WS', i)]_vars

\* C13: the flee cap: an agent that has executed 30 consecutive ticks in FLEE
\* is no longer in FLEE, with or without a world.
C13_FleeCapped ==
    \A i \in Ids : (Real(i) /\ agents[i].state = "FLEE") => agents[i].flee_ticks < 30

\* C14: every transition a tick makes out of FLEE goes to SCAVENGE.
C14_FleeLeadsToScavenge ==
    [][\A i \in Ids :
          (Ticked(i) /\ agents[i].state = "FLEE" /\ agents'[i].state # "FLEE")
          => agents'[i].state = "SCAVENGE"]_vars

\* C15: in the authoritative simulation every agent's health is within
\* 0..max_health, after any attacks, meals and purchases.
C15_HealthBounded ==
    mode = "local" =>
        \A i \in Ids : 0 <= agents[i].health /\ agents[i].health <= agents[i].max_health

\* ammo and every inventory count of agent a are >= 0
NonNegative(a) ==
    /\ a.ammo >= 0
    /\ a.inventory.food >= 0 /\ a.inventory.scrap >= 0 /\ a.inventory.ammo >= 0

\* C16: no step leaves an agent with negative ammo or a negative inventory
\* count; a tick spends a round only when the agent had one; with an economy,
\* an EAT tick without food and an UPGRADE tick without an affordable upgrade
\* leave inventory, health and ammo as they were.
C16_CountsNeverNegative ==
    [][\A i \in Ids :
          /\ NonNegative(agents'[i])
          /\ (Ticked(i) /\ agents'[i].ammo < agents[i].ammo) => agents[i].ammo > 0
          /\ (/\ Ticked(i) /\ mode = "local"
              /\ \/ agents[i].state = "EAT" /\ agents[i].inventory.food = 0
                 \/ agents[i].state = "UPGRADE" /\ NoAffordable(agents[i]))
             => /\ agents'[i].inventory = agents[i].inventory
                /\ agents'[i].health = agents[i].health
                /\ agents'[i].ammo = agents[i].ammo]_vars

\* an EAT tick with an economy and no food: health and inventory as constructed
C16_Witness ==
    /\ mode = "local"
    /\ last.op = "update"
    /\ last.calls = << <<"execute", "EAT">>, <<"exit", "EAT">>, <<"enter", "SCAVENGE">> >>
    /\ agents[last.id].health = 20
    /\ agents[last.id].inventory.food = 0

\* C17: in the authoritative simulation every living agent stands on a cell
\* of the grid that World.is_walkable accepts (never a wall).
C17_AgentsOnWalkableTiles ==
    mode = "local" =>
        \A i \in Ids : agents[i].health > 0 =>
            /\ InBounds(agents[i].x, agents[i].y)
            /\ Terrain(agents[i].x, agents[i].y) # "wall"

\* C18: with an economy or over the network, the path cursor of every agent
\* is within 0..len(path), after any ticks, replans, clears and snapshots.
C18_CursorWithinPath ==
    \A i \in Ids : Real(i) =>
        /\ 0 <= agents[i].path_index
        /\ agents[i].path_index <= Len(agents[i].path)

\* a snapshot that confirmed the last cell of a planned path: the cursor is
\* at the end of the path
C18_Witness ==
    /\ mode = "net"
    /\ last.op = "snapshot"
    /\ Len(agents[1].path) >= 2
    /\ agents[1].path_index = Len(agents[1].path)

\* the smallest element of a non-empty set of integers
MinOf(S) == CHOOSE m \in S : \A n \in S : m <= n

\* the cells that can be entered from cell p on map w
Successors(w, p) ==
    {get_neighbors(w, p[1], p[2])[k] : k \in 1..Len(get_neighbors(w, p[1], p[2]))}

\* the steps of map w with their costs: <<from, to, cost of entering to>>
Steps(w) ==
    UNION {{<<p, c, get_cost(w, c[1], c[2])>> : c \in Successors(w, p)} : p \in Cells}

\* the cost recorded for cell c in a set D of <<cell, cost>> pairs
CostAt(D, c) == (CHOOSE pr \in D : pr[1] = c)[2]

\* one round of relaxation of the least costs D from the start over the steps E
RelaxAll(D, E) ==
    {<<pr[1], MinOf({pr[2]} \cup
                    {CostAt(D, e[1]) + e[3] :
                        e \in {f \in E : f[2] = pr[1] /\ CostAt(D, f[1]) < Inf}})>> :
        pr \in D}

\* relaxation up to the fixed point, reached after at most one round per cell
RECURSIVE RelaxRounds(_, _, _)
RelaxRounds(D, E, k) ==
    LET next == RelaxAll(D, E)
    IN  IF k = 0 \/ next = D THEN D ELSE RelaxRounds(next, E, k - 1)

\* the least total cost of a path from start to goal on map w, Inf if none
MinCost(start, goal, w) ==
    CostAt(RelaxRounds({<<c, IF c = start THEN 0 ELSE Inf>> : c \in Cells},
                       Steps(w), Cardinality(Cells)), goal)

\* the total cost of a path: the costs of the cells entered
RECURSIVE PathCost(_, _)
PathCost(path, w) ==
    IF Len(path) <= 1 THEN 0
    ELSE get_cost(w, path[Len(path)][1], path[Len(path)][2])
         + PathCost(SubSeq(path, 1, Len(path) - 1), w)

\* every cell of the map is floor: no obstacle, unit costs
ObstacleFree(w) == \A c \in Cells : w.grid[c[2] + 1][c[1] + 1] = "floor"

\* C19: when the goal is reachable, the path find_path returns has the least
\* total cost of all paths from start to goal; on an obstacle-free unit-cost
\* grid its number of steps is the Manhattan distance.
C19_PathIsCheapest ==
    (query.fn = "find_path" /\ query.done) =>
        LET least == MinCost(query.start, query.goal, query.w)
        IN  least < Inf =>
               /\ query.path # <<>>
               /\ PathCost(query.path, query.w) = least
               /\ ObstacleFree(query.w)
                  => Len(query.path) - 1 = manhattan(query.start, query.goal)

\* a path that makes a detour: more steps than the Manhattan distance, around
\* a cell that is dearer than the way round
C19_Witness ==
    /\ query.fn = "find_path" /\ query.done
    /\ query.w.kind = "World"
    /\ Len(query.path) - 1 > manhattan(query.start, query.goal)

\* C20: find_path returns the empty path exactly when the goal cannot be
\* reached from start through the map's neighbours; a non-empty path starts at
\* start, ends at goal and goes from neighbour to neighbour; start = goal
\* gives the one-cell path.
C20_EmptyIffUnreachable ==
    (query.fn = "find_path" /\ query.done) =>
        LET path == query.path
            reachable == MinCost(query.start, query.goal, query.w) < Inf
        IN  /\ path = <<>> <=> ~reachable
            /\ path # <<>> =>
                  /\ path[1] = query.start
                  /\ path[Len(path)] = query.goal
                  /\ \A k \in 1..(Len(path) - 1) :
                        \E j \in 1..Len(get_neighbors(query.w, path[k][1], path[k][2])) :
                           get_neighbors(query.w, path[k][1], path[k][2])[j] = path[k + 1]
            /\ query.start = query.goal => path = <<query.start>>

\* a search that failed: the goal is a floor cell that walls cut off
C20_Witness ==
    /\ query.fn = "find_path" /\ query.done
    /\ query.path = <<>>
    /\ query.w.grid[query.goal[2] + 1][query.goal[1] + 1] = "floor"

ActionNames == {"MOVE_UP", "MOVE_DOWN", "MOVE_LEFT", "MOVE_RIGHT", "ATTACK"}

\* C22: _get_possible_moves generates ATTACK for a side only when that side
\* has ammo; the successor has the actor's ammo lowered by 1, the other side's
\* health lowered by 10 and nothing else changed.  get_best_move returns one
\* of the five action names, and never ATTACK when the agent has no ammo.
C22_AttackNeedsAmmo ==
    /\ (query.fn = "minimax" /\ query.call.op = "get_possible_moves") =>
          LET st == query.call.state
              is_maximizing == query.call.is_maximizing
              actor == IF is_maximizing THEN st.agent ELSE st.opponent
              other == IF is_maximizing THEN st.opponent ELSE st.agent
          IN  \A k \in 1..Len(query.call.moves) :
                 LET m == query.call.moves[k]
                     new_actor == IF is_maximizing THEN m.state.agent ELSE m.state.opponent
                     new_other == IF is_maximizing THEN m.state.opponent ELSE m.state.agent
                 IN  /\ m.name \in ActionNames
                     /\ m.name = "ATTACK" =>
                           /\ actor.ammo > 0
                           /\ new_actor.ammo = actor.ammo - 1
                           /\ new_other.health = other.health - 10
                           /\ new_actor.health = actor.health
                           /\ new_other.ammo = other.ammo
                           /\ <<new_actor.x, new_actor.y>> = <<actor.x, actor.y>>
                           /\ <<new_other.x, new_other.y>> = <<other.x, other.y>>
    /\ (query.fn = "minimax" /\ query.call.op = "get_best_move") =>
          /\ query.call.move \in ActionNames
          /\ query.call.state.agent.ammo = 0 => query.call.move # "ATTACK"

\* the moves of the opponent, who has ammo and gets an attack, are generated
\* for a state in which the agent has none
C22_Witness ==
    /\ query.fn = "minimax" /\ query.call.op = "get_possible_moves"
    /\ ~query.call.is_maximizing
    /\ query.call.state.agent.ammo = 0
    /\ \E k \in 1..Len(query.call.moves) : query.call.moves[k].name = "ATTACK"

\* C23: evaluate_confidence returns a value between 0 and 1 for every health
\* and ammo, negative, beyond the range and infinite ones included, and 0 when
\* the three rule strengths are 0.
C23_ConfidenceInUnitRange ==
    (query.fn = "evaluate_confidence" /\ query.done) =>
        /\ 0 <= query.confidence
        /\ query.confidence <= FuzzyScale
        /\ query.strengths = <<0, 0, 0>> => query.confidence = 0

\* the confidence of an infinite health and a negative ammo: no rule fires
C23_Witness ==
    /\ query.fn = "evaluate_confidence" /\ query.done
    /\ query.health_val = FuzzyInf
    /\ query.ammo_val < 0
    /\ query.strengths = <<0, 0, 0>>

\* C24: an update_belief call whose visibility is at most 0.01, for a pair
\* that has a belief of confidence C, leaves the belief in place with
\* confidence max(0, C - 0.1), which is not above C, and with the estimated
\* position it had.
C24_BeliefDecays ==
    (query.fn = "update_belief" /\ query.call.observer_id # 0
        /\ query.call.vis_score <= 10 /\ query.call.before.present)
    => LET stored == query.beliefs[query.call.observer_id][query.call.target_id]
           C == query.call.before.confidence
       IN  /\ stored.present
           /\ stored.confidence = Max2(0, C - 100)
           /\ stored.confidence <= C
           /\ stored.estimated_pos = query.call.before.estimated_pos

\* a belief with a noisy position, seen at the edge of the range with a small
\* positive visibility, decays to the floor
C24_Witness ==
    /\ query.fn = "update_belief" /\ query.call.observer_id # 0
    /\ query.call.vis_score <= 10 /\ query.call.vis_score > 0
    /\ query.call.before.present
    /\ query.call.before.confidence \in 1..99
    /\ query.call.before.estimated_pos \notin TargetPositions
    /\ query.beliefs[query.call.observer_id][query.call.target_id].confidence = 0

(***************************************************************************)
(* Calls of GameServer.process_action on agents placed on a row of the     *)
(* server's world, near and beyond the range of an attack; the messages    *)
(* carry no position, so the world's tiles are not looked at               *)
(***************************************************************************)

\* cap on the number of calls made in a run
MaxActions == 2

\* the sender's health and ammo, the other agent's column and health
SenderHealths == {0, 50}
SenderAmmo == {0, 1}
TargetColumns == {2, 6}
TargetHealths == {0, 10, 50}

\* the messages without a proposed position
PlainMessages == {m \in ActionMessages : m.position = NoPos}

ActionInit ==
    /\ mode = "server"
    /\ resources = InitResources
    /\ ticks = 0
    /\ last = Call("init", 0, None, NoSnap, <<>>, NoPacket)
    /\ \E h1 \in SenderHealths, am1 \in SenderAmmo, tx \in TargetColumns,
          h2 \in TargetHealths, there \in BOOLEAN :
          agents = [i \in Ids |->
                      IF i = 1 THEN NewAgent(1, 0, 0, h1, am1, EmptyInventory)
                      ELSE IF i = 2 /\ there THEN NewAgent(2, tx, 1, h2, 20, EmptyInventory)
                      ELSE Absent(i)]
    /\ query = [fn |-> "process_action", calls |-> 0, agent_id |-> NoId, data |-> NoPacket,
                agents |-> [i \in Ids |-> Absent(i)], resources |-> <<>>]

\* self.process_action(agent_id, data); the query keeps the arguments, and
\* the agents and resources as they were before the call
ProcessAction(agent_id, data) ==
    /\ query.fn = "process_action"
    /\ query.calls < MaxActions
    /\ LET r == process_action(agents, resources, agent_id, data)
       IN  /\ agents' = r.agents
           /\ resources' = r.resources
    /\ query' = [query EXCEPT !.calls = @ + 1, !.agent_id = agent_id, !.data = data,
                              !.agents = agents, !.resources = resources]
    /\ UNCHANGED <<mode, ticks, last>>

ActionNext == \E agent_id \in Ids, data \in PlainMessages : ProcessAction(agent_id, data)

ActionSpec == ActionInit /\ [][ActionNext]_vars

\* The two authorities over the world: a run of the engine (or of a client
\* or a test), or a run of the server.
AuthorityInit == Init \/ ServerInit

AuthorityNext == Next \/ ServerNext

AuthoritySpec == AuthorityInit /\ [][AuthorityNext]_vars

\* Combat Search where it is called: on a Minimax object by the tests, and
\* from FightState in the runs of the engine, a client or a test.
CombatInit == Init \/ MinimaxInit

\* a run makes the calls of its kind
CombatNext == (query.fn = None /\ Next) \/ MinimaxNext

CombatSpec == CombatInit /\ [][CombatNext]_vars

\* C25: on the server the receipt of an action message changes neither an
\* agent nor the world: actions are queued and applied at the start of a tick.
C25_ReceiptChangesNothing ==
    [][(mode = "server" /\ last'.op = "receive")
        => (agents' = agents /\ resources' = resources)]_vars

\* C26: the game-over message is never sent while two or more agents live,
\* never sent twice to a connection, and names as winner the one agent that
\* game_loop found alive, or none when it found none; when game_loop ends
\* after the broadcast each client of the server has got the message.
C26_GameOverSentOnce ==
    mode = "server" =>
        LET msgs == query.game_over_msgs
        IN  /\ \A k \in 1..Len(msgs) :
                  /\ Cardinality(msgs[k].alive) <= 1
                  /\ msgs[k].winner = (IF query.alive = {} THEN NoId
                                       ELSE CHOOSE i \in query.alive : TRUE)
                  /\ \A j \in 1..Len(msgs) : msgs[j].conn = msgs[k].conn => j = k
            /\ msgs # <<>> => query.game_over /\ Cardinality(query.alive) <= 1
            /\ query.pc = "stopped" =>
                  \A e \in 1..Len(query.clients) :
                     query.clients[e].conn # 0 =>
                        \E k \in 1..Len(msgs) : msgs[k].conn = query.clients[e].conn

\* agent 2 was killed; the winner and the client of the dead agent both got
\* the message, and game_loop ended
C26_Witness ==
    /\ mode = "server"
    /\ query.pc = "stopped"
    /\ Len(query.game_over_msgs) = 2
    /\ query.winner = 1
    /\ agents[2].present /\ agents[2].health <= 0

\* C27: every call of NetworkedAgent.update returns one action packet of the
\* agent it was called on, also when the FSM decided nothing (action and
\* position both null); no call is left without a packet.
C27_OnePacketPerUpdate ==
    mode = "net" =>
        /\ last.op = "snapshot" => net_update(WS, 1) # {}
        /\ last.op = "net_update" =>
               /\ last.packet.type = "action"
               /\ last.packet.agent_id = last.id
               /\ last.packet.action \in {None, "ATTACK", "SCAVENGE", "EAT", "UPGRADE"}
               /\ last.packet.action # "ATTACK" => last.packet.target_id = NoId
               /\ last.packet.action # "UPGRADE" => last.packet.upgrade_type = None

\* the FSM decided nothing, and the packet is there with both fields null
C27_Witness ==
    /\ mode = "net"
    /\ last.op = "net_update"
    /\ last.packet.type = "action"
    /\ last.packet.action = None
    /\ last.packet.position = NoPos

\* the living agents other than i
LivingRivals(ags, i) ==
    {k \in Ids : k # i /\ ags[k].present /\ ags[k].health > 0}

\* the living rivals of i at the least Manhattan distance
NearestLivingRivals(ags, i) ==
    LET d(k) == Abs(ags[k].x - ags[i].x) + Abs(ags[k].y - ags[i].y)
    IN  {k \in LivingRivals(ags, i) : \A j \in LivingRivals(ags, i) : d(k) <= d(j)}

\* C28: whenever the FSM tick of NetworkedAgent.update decreases the local
\* ammo, the packet returned has action ATTACK and its target_id is the
\* nearest living rival: not the agent itself, not a dead agent, not null.
C28_AmmoDecreaseIsAttack ==
    mode = "net" =>
        /\ last.op = "snapshot" =>
               \A r \in fsm_update(WS, 1) :
                  r.agents[1].ammo < agents[1].ammo =>
                     LET p == NetAfterFsm(WS, 1, agents[1], r).packet
                     IN  /\ p.action = "ATTACK"
                         /\ p.target_id \in NearestLivingRivals(r.agents, 1)
        /\ (last.op = "net_update" /\ last.packet.action = "ATTACK") =>
               /\ last.packet.target_id # last.id
               /\ last.packet.target_id \in NearestLivingRivals(agents, 1)

\* the client shot: the packet names the living agent 2, and the round spent
\* by the FSM is back in the local ammo
C28_Witness ==
    /\ mode = "net"
    /\ last.op = "net_update"
    /\ last.packet.action = "ATTACK"
    /\ last.packet.target_id = 2
    /\ agents[2].present /\ agents[2].health > 0
    /\ agents[1].ammo = 2

ResourceTypes == {"food", "scrap", "ammo"}

\* agent i holds more of some resource after the step than before it
Credited(i) ==
    /\ agents[i].present /\ agents'[i].present
    /\ \E t \in ResourceTypes : agents'[i].inventory[t] > agents[i].inventory[t]

\* the step took entry k out of world.resources and gave its amount to agent
\* i, who stands on it
CollectedBy(i, k) ==
    LET res == resources[k]
    IN  /\ res.x = agents'[i].x /\ res.y = agents'[i].y
        /\ resources' = RemoveAt(resources, k)
        /\ agents'[i].inventory[res.type] = agents[i].inventory[res.type] + res.amount
        /\ \A t \in ResourceTypes \ {res.type} :
               agents'[i].inventory[t] = agents[i].inventory[t]

\* a step of an authority credits and removes together
CollectStep ==
    mode \in {"local", "server"} =>
        /\ \A i \in Ids :
               Credited(i) =>
                  /\ \E k \in 1..Len(resources) : CollectedBy(i, k)
                  /\ \A j \in Ids \ {i} : ~Credited(j)
        /\ (Len(resources') < Len(resources) => \E i \in Ids : Credited(i))

\* C29: in the engine's simulation and on the server a resource leaves
\* world.resources in the very step that credits it: a step that credits an
\* agent removes exactly the one resource under that agent, credits its amount
\* to that agent alone, and no resource leaves the world without a credit.
C29_CollectedOnceAndRemoved == [][CollectStep]_vars

\* the server has credited the food at (0, 1) to agent 1 and the world no
\* longer holds it
C29_Witness ==
    /\ mode = "server"
    /\ agents[1].present
    /\ agents[1].inventory.food = 1
    /\ <<agents[1].x, agents[1].y>> = <<0, 1>>
    /\ \A k \in 1..Len(resources) : <<resources[k].x, resources[k].y>> # <<0, 1>>

\* the snapshot of this step confirms the position the agent had, and the
\* agent had a path when it came
UnchangedWithPath ==
    /\ agents[1].path # <<>>
    /\ <<agents'[1].x, agents'[1].y>> = <<agents[1].x, agents[1].y>>

\* the stuck detection of update_from_server cleared the path: with the
\* position unchanged nothing else of it empties a path
StuckCleared == UnchangedWithPath /\ agents'[1].path = <<>>

SnapshotStep ==
    (mode = "net" /\ last'.op = "snapshot") =>
        (StuckCleared <=> (UnchangedWithPath /\ last.with_path + 1 >= 3))

\* C30: update_from_server clears the path for being stuck exactly when the
\* snapshot is the third in a row that confirms an unchanged position while
\* the agent has a path; a snapshot that came while the agent had no path
\* does not count, so the first unchanged snapshot after a path was planned
\* does not clear it.
C30_StuckAfterThreeWithPath == [][SnapshotStep]_vars

\* the agent has an active path when the snapshot of this step comes
PathActive == agents[1].path # <<>> /\ agents[1].path_index < Len(agents[1].path)

ConfirmedPos == <<agents'[1].x, agents'[1].y>>

SnapshotOnPath ==
    (mode = "net" /\ last'.op = "snapshot" /\ PathActive) =>
        LET a == agents[1]
            expected == a.path[a.path_index + 1]
        IN  /\ ConfirmedPos = expected =>
                   agents'[1].path = a.path /\ agents'[1].path_index = a.path_index + 1
            /\ (ConfirmedPos # expected /\ ConfirmedPos # <<a.x, a.y>>) =>
                   agents'[1].path = <<>> /\ agents'[1].path_index = 0
            /\ agents'[1].path \in {a.path, <<>>}

RECURSIVE PlainValue(_, _, _, _)
PlainValue(st, depth, is_maximizing, aggression) ==
    IF depth = 0 \/ st.agent.health <= 0 \/ st.opponent.health <= 0
    THEN evaluate(st, aggression)
    ELSE LET moves == get_possible_moves(st, is_maximizing)
             values == {PlainValue(moves[k].state, depth - 1, ~is_maximizing, aggression) :
                           k \in 1..Len(moves)}
         IN  CHOOSE v \in values :
                \A w \in values : IF is_maximizing THEN v >= w ELSE v <= w

\* the first move of maximal value in generation order, with its value
PlainBest(st, depth, aggression) ==
    LET moves == get_possible_moves(st, TRUE)
        value == [k \in 1..Len(moves) |->
                     PlainValue(moves[k].state, depth - 1, FALSE, aggression)]
        first == CHOOSE k \in 1..Len(moves) :
                     /\ \A j \in 1..Len(moves) : value[k] >= value[j]
                     /\ \A j \in 1..(k - 1) : value[j] < value[k]
    IN  [move |-> moves[first].name, score |-> value[first]]

\* C32: get_best_move returns the move and the score of the unpruned
\* depth-limited minimax over the same move order that keeps the first move
\* of maximal value: alpha-beta pruning does not change the result.
C32_PruningKeepsResult ==
    (query.fn = "minimax" /\ query.call.op = "get_best_move") =>
        LET plain == PlainBest(query.call.state, query.call.depth, query.mm.aggression)
        IN  /\ query.call.move = plain.move
            /\ query.call.score = plain.score

\* a search of depth 2 that pruned: neither side has ammo, so the full tree
\* has 4 + 16 states, the search made fewer evaluations and returned the
\* unpruned result
C32_Witness ==
    /\ query.fn = "minimax"
    /\ query.call.op = "get_best_move"
    /\ query.call.depth = 2
    /\ query.call.state.agent.ammo = 0 /\ query.call.state.opponent.ammo = 0
    /\ query.mm.profiling_data.calls < 20
    /\ query.call.move = PlainBest(query.call.state, 2, query.mm.aggression).move

\* 5 + 5^2 + ... + 5^depth
RECURSIVE TreeSize(_)
TreeSize(depth) == IF depth = 0 THEN 0 ELSE 5 * (1 + TreeSize(depth - 1))

\* C33: a search from a state in which both sides live generates moves only
\* of states less than depth plies below the root (a depth of at least 1 is
\* left at each), of no state in which a side's health is 0 or less, and
\* makes at most 5 + 5^2 + ... + 5^depth evaluations; the call counter of the
\* Minimax object holds the evaluations of the latest search only.
C33_SearchIsBounded ==
    (query.fn = "minimax" /\ query.call.op = "get_best_move") =>
        /\ \A e \in query.expanded :
               /\ 1 <= e[1] /\ e[1] <= query.call.depth
               /\ e[2].agent.health > 0 /\ e[2].opponent.health > 0
        /\ query.mm.profiling_data.calls <= TreeSize(query.call.depth)
        /\ query.mm.profiling_data.calls =
               get_best_move(query.call.state, query.call.depth, query.mm.aggression).calls

\* a second search of depth 2 from the state in which the attack kills: the
\* dead opponent's state was evaluated and not expanded, and the counter
\* holds this search's evaluations
C33_Witness ==
    /\ query.fn = "minimax"
    /\ query.call.op = "get_best_move"
    /\ query.call.depth = 2
    /\ query.call.state.opponent.health = 10
    /\ query.first # query.call
    /\ query.mm.profiling_data.calls >= 5
    /\ \A e \in query.expanded : e[2].opponent.health > 0

\* the tick of this step ran FightState.execute on agent i
FightTick(i) ==
    /\ mode \in {"local", "net"}
    /\ last'.op \in {"update", "net_update"}
    /\ last'.id = i
    /\ last'.calls # <<>>
    /\ last'.calls[1] = <<"execute", "FIGHT">>

\* what a tick in FIGHT may change: the agent's position and one round of
\* its ammo; of another agent only the health, by the damage of the shot the
\* engine applies
OnlyTheActionChanges(i) ==
    /\ agents'[i].health = agents[i].health
    /\ agents'[i].ammo \in {agents[i].ammo, agents[i].ammo - 1}
    /\ \A j \in Ids \ {i} :
           \/ agents'[j] = agents[j]
           \/ /\ mode = "local"
              /\ agents'[i].ammo = agents[i].ammo - 1
              /\ agents'[j] = [agents[j] EXCEPT !.health =
                                  @ - (10 + agents[i].upgrades.weapon_damage * 5)]

SearchStep ==
    /\ (query'.fn = "minimax" /\ query'.call.op # None) => query'.state = query'.call.state
    /\ \A i \in Ids : FightTick(i) => OnlyTheActionChanges(i)

Living(ags) == {i \in Ids : ags[i].present /\ ags[i].health > 0}

\* no two living agents share a tile
Separated(ags) ==
    \A i, j \in Living(ags) : i # j => <<ags[i].x, ags[i].y>> # <<ags[j].x, ags[j].y>>

\* every agent stands on a walkable tile of the server's world
OnWalkable(ags) ==
    \A i \in Ids : ags[i].present => is_walkable(ServerWorld, ags[i].x, ags[i].y)

\* a process_action call moves at most its sender, and only to a walkable
\* tile at Chebyshev distance 1 that no other living agent holds
MoveValidated ==
    (mode = "server" /\ last'.op = "receive") =>
        /\ \A i \in Ids :
               (agents[i].present /\ <<agents'[i].x, agents'[i].y>> # <<agents[i].x, agents[i].y>>) =>
                  /\ query.conns[last'.id].agent_id = i
                  /\ chebyshev(agents'[i].x, agents'[i].y, agents[i].x, agents[i].y) <= 1
                  /\ is_walkable(ServerWorld, agents'[i].x, agents'[i].y)
                  /\ \A j \in Living(agents) \ {i} :
                         <<agents[j].x, agents[j].y>> # <<agents'[i].x, agents'[i].y>>
        /\ (Separated(agents) /\ OnWalkable(agents)) =>
               (Separated(agents') /\ OnWalkable(agents'))

\* the server's agents stay apart and on walkable tiles
TilesRespected ==
    mode' = "server" => (Separated(agents') /\ OnWalkable(agents'))

ValidatedStep == MoveValidated /\ TilesRespected

\* C35: process_action applies a proposed position only if it is within
\* Chebyshev distance 1 of the agent's position, walkable and not held by
\* another living agent, and leaves the position as it is otherwise; and on
\* the server, whose agents start from distinct walkable spawns, no two
\* living agents ever share a tile and no agent stands on a wall.
C35_MovesAreValidated == [][ValidatedStep]_vars

\* agent 1 has moved next to agent 2, both alive, each on a tile of its own
C35_Witness ==
    /\ mode = "server"
    /\ last.op = "receive"
    /\ Living(agents) = {1, 2}
    /\ <<agents[1].x, agents[1].y>> = <<1, 0>>
    /\ <<agents[2].x, agents[2].y>> = <<2, 1>>

\* the ATTACK of the latest process_action call was one the server accepts
AttackAccepted ==
    LET b == query.agents
        i == query.agent_id
        t == query.data.target_id
    IN  /\ query.data.action = "ATTACK"
        /\ b[i].present /\ b[i].health > 0 /\ b[i].ammo > 0
        /\ t \in Ids
        /\ b[t].present /\ b[t].health > 0
        /\ chebyshev(b[i].x, b[i].y, b[t].x, b[t].y) <= 5

\* the call took one round from the sender and health from the target, and
\* changed nothing else
OnlyTheShot ==
    LET b == query.agents
        i == query.agent_id
        t == query.data.target_id
    IN  /\ agents[i].ammo = b[i].ammo - 1
        /\ agents[t].health < b[t].health
        /\ \A j \in Ids :
               /\ j # i => agents[j].ammo = b[j].ammo
               /\ j # t => agents[j].health = b[j].health
               /\ [agents[j] EXCEPT !.ammo = b[j].ammo, !.health = b[j].health] = b[j]
        /\ resources = query.resources

NothingChanged == agents = query.agents /\ resources = query.resources

\* C36: an ATTACK changes state only when the attacker lives and has ammo and
\* the target exists, lives and is within Chebyshev distance 5: then the
\* attacker's ammo drops by exactly 1 and only the target's health drops; an
\* ATTACK in any other case, and any action of a dead or unknown agent,
\* changes no agent and nothing of the world.
C36_AttackIsValidated ==
    (query.fn = "process_action" /\ query.calls > 0) =>
        /\ query.data.action = "ATTACK" =>
               IF AttackAccepted THEN OnlyTheShot ELSE NothingChanged
        /\ (~query.agents[query.agent_id].present
             \/ query.agents[query.agent_id].health <= 0) => NothingChanged

\* agent 1 spent its only round on agent 2 at distance 2, who lost health;
\* the second ATTACK, without ammo, changed nothing
C36_Witness ==
    /\ query.fn = "process_action"
    /\ query.calls = 2
    /\ query.agent_id = 1
    /\ query.data.action = "ATTACK" /\ query.data.target_id = 2
    /\ agents[1].ammo = 0
    /\ agents[2].present /\ agents[2].x = 2 /\ agents[2].health = 40
    /\ agents = query.agents

OpenConns(sv) == {c \in Conns : sv.conns[c].status = "open"}

\* connection c has its entry in self.clients
HoldsEntry(sv, c) ==
    \E k \in 1..Len(sv.clients) :
       sv.clients[k].conn = c /\ sv.clients[k].id = sv.conns[c].agent_id

\* open connections have ids of their own, within 1..max_agents
IdsUnique(sv) ==
    /\ \A c, d \in OpenConns(sv) : c # d => sv.conns[c].agent_id # sv.conns[d].agent_id
    /\ \A c \in OpenConns(sv) : sv.conns[c].agent_id \in 1..max_agents

\* the cleanup of a handler leaves to every other open connection its entry
\* in self.clients and its agent
CleanupIsOwn ==
    last'.op = "cleanup" =>
        \A d \in OpenConns(query) \ {last'.id} :
           /\ HoldsEntry(query, d) => HoldsEntry(query', d)
           /\ agents[query.conns[d].agent_id].present =>
                  agents'[query.conns[d].agent_id] = agents[query.conns[d].agent_id]

IdsStep == mode' = "server" => (IdsUnique(query') /\ CleanupIsOwn)

\* C37: under every interleaving of connects, disconnects, failed sends of
\* game_loop and cleanups of handlers, no two open connections are bound to
\* one agent id, every bound id is in 1..max_agents, and the cleanup of a
\* handler removes neither the agent nor the client entry of another
\* connection that is still open.
C37_IdsAreUnique == [][IdsStep]_vars

\* connected_agents is the number of entries of self.clients and is not negative
CounterMatches(sv) ==
    /\ sv.connected_agents = Len(LiveClients(sv.clients))
    /\ sv.connected_agents >= 0

\* C38: under every interleaving of connects, cleanups of handlers and
\* removals by game_loop of clients whose send failed, connected_agents
\* equals the number of entries of clients and is never negative.
C38_CounterMatchesClients == mode = "server" => CounterMatches(query)

\* the packet of the last update of the client proposes no position, or one
\* that process_action would not refuse as too far from where the agent is
ProposalIsNear ==
    last.packet.position # NoPos =>
        /\ Abs(last.packet.position[1] - agents[1].x) <= 1
        /\ Abs(last.packet.position[2] - agents[1].y) <= 1

\* C39: after every interleaving of snapshots (accepted moves, rejected
\* moves, unexpected displacements) and ticks of the FSM, a position in the
\* packet of NetworkedAgent.update is within Chebyshev distance 1 of the
\* local position of the agent when the packet is made.
C39_ProposalWithinOneStep ==
    (mode = "net" /\ last.op = "net_update") => ProposalIsNear

\* a proposal taken from the path, made at (1, 0) after an accepted move
\* and a snapshot that left the agent where it was
C39_Witness ==
    /\ mode = "net" /\ last.op = "net_update"
    /\ last.packet.position # NoPos /\ last.packet.action = None
    /\ last.with_path >= 1
    /\ agents[1].path_index >= 1
    /\ <<agents[1].x, agents[1].y>> = <<1, 0>>

\* a tick of the simulation gives no agent a round, and sends no agent
\* without rounds into FIGHT
AmmoStep ==
    \A i \in Ids :
       /\ agents'[i].ammo <= agents[i].ammo
       /\ (agents[i].ammo = 0 /\ agents[i].state # "FIGHT") => agents'[i].state # "FIGHT"

\* C40: in the simulation of the engine the ammo of an agent never goes up,
\* collected ammo resources included, so an agent whose ammo is 0 never
\* enters FIGHT again.
C40_AmmoNeverIncreases == [][mode' = "local" => AmmoStep]_vars

\* the first agent has shot the living rival, has no round left, has since
\* collected both ammo resources and is fit to fight
C40_Witness ==
    /\ mode = "local" /\ last.op = "update"
    /\ agents[2].health \in 1..99
    /\ agents[1].ammo = 0 /\ agents[1].inventory.ammo = 15
    /\ agents[1].health > 40 /\ agents[1].state # "FIGHT"

====
